---- MODULE Spec2Model ----
(***************************************************************************)
(* The provider side of the storage-deal negotiation: one MinerDeal record *)
(* driven through the ProviderEvents transition table by the state-entry   *)
(* handlers registered in ProviderStateEntryFuncs, by the external         *)
(* collaborators (data transfer, manual import) and by events sent to the  *)
(* record from outside the handlers.                                       *)
(***************************************************************************)
EXTENDS Integers, Sequences, FiniteSets, TLC

VARIABLES
    deal,       \* the persisted MinerDeal record
    pending,    \* TRUE while the state-entry handler of deal.State is dispatched and has not fired yet
    last,       \* audit: the last event handed to the event processor alone, and whether it was applied
    probe,      \* audit: the last IsTerminated query, the status asked about and the answer
    visited,    \* history: every status the record has been in
    sentClosed, \* history: a handler tried to send a signed response while ConnectionClosed was true
    stamped,    \* history: the deal id carried by the applied ProviderEventDealPublished, if any
    trail,      \* history: the states entered, in order, up to the first entry into failing or error
    down,       \* TRUE while the provider process is stopped
    vin,        \* the proposal, chain and environment parameters validate_deal_proposal is run with
    ext,        \* the file store, the piece store and the node's sealing interface as the last handler left them
    hp,         \* the row a handler is run with on its own: the record made up, the stores and the parameters, then the events it fired and what it asked of the network
    shown,      \* audit: the last look-up in an event-name table
    hub         \* the subscriber hub: the events applied, the subscription and what was delivered to it

vars == <<deal, pending, last, probe, visited, sentClosed, stamped, trail, down, vin, ext, hp, shown, hub>>

----------------------------------------------------------------------------
\* Bounds of the model.

NumCids == 2        \* message CIDs the chain node can return: 1..NumCids
MaxDealID == 1      \* deal ids the chain can assign: 0..MaxDealID
MaxApplied == 2     \* events applied in a row to a made-up record
MaxNotified == 3    \* events applied to the record a subscriber watches

----------------------------------------------------------------------------
\* StorageDealStatus codes (iota order).

StorageDealUnknown == 0
StorageDealProposalNotFound == 1
StorageDealProposalRejected == 2
StorageDealProposalAccepted == 3
StorageDealStaged == 4
StorageDealSealing == 5
StorageDealActive == 6
StorageDealFailing == 7
StorageDealNotFound == 8
StorageDealFundsEnsured == 9
StorageDealValidating == 10
StorageDealTransferring == 11
StorageDealWaitingForData == 12
StorageDealVerifyData == 13
StorageDealEnsureProviderFunds == 14
StorageDealEnsureClientFunds == 15
StorageDealProviderFunding == 16
StorageDealClientFunding == 17
StorageDealPublish == 18
StorageDealPublishing == 19
StorageDealError == 20
StorageDealCompleted == 21

StorageDealStatus == StorageDealUnknown..StorageDealCompleted

\* ProviderEvent codes (iota order).

ProviderEventOpen == 0
ProviderEventNodeErrored == 1
ProviderEventDealRejected == 2
ProviderEventDealAccepted == 3
ProviderEventWaitingForManualData == 4
ProviderEventInsufficientFunds == 5
ProviderEventFundingInitiated == 6
ProviderEventFunded == 7
ProviderEventDataTransferFailed == 8
ProviderEventDataTransferInitiated == 9
ProviderEventDataTransferCompleted == 10
ProviderEventManualDataReceived == 11
ProviderEventGeneratePieceCIDFailed == 12
ProviderEventVerifiedData == 13
ProviderEventSendResponseFailed == 14
ProviderEventDealPublishInitiated == 15
ProviderEventDealPublished == 16
ProviderEventDealPublishError == 17
ProviderEventFileStoreErrored == 18
ProviderEventDealHandoffFailed == 19
ProviderEventDealHandedOff == 20
ProviderEventDealActivationFailed == 21
ProviderEventUnableToLocatePiece == 22
ProviderEventDealActivated == 23
ProviderEventPieceStoreErrored == 24
ProviderEventReadMetadataErrored == 25
ProviderEventDealCompleted == 26
ProviderEventFailed == 27
ProviderEventRestart == 28

ProviderEvent == ProviderEventOpen..ProviderEventRestart

\* ClientEvent codes (iota order).

ClientEventOpen == 0
ClientEventEnsureFundsFailed == 1
ClientEventFundingInitiated == 2
ClientEventFundsEnsured == 3
ClientEventWriteProposalFailed == 4
ClientEventDealProposed == 5
ClientEventDealStreamLookupErrored == 6
ClientEventReadResponseFailed == 7
ClientEventResponseVerificationFailed == 8
ClientEventResponseDealDidNotMatch == 9
ClientEventStreamCloseError == 10
ClientEventDealRejected == 11
ClientEventDealAccepted == 12
ClientEventDealPublishFailed == 13
ClientEventDealPublished == 14
ClientEventDealActivationFailed == 15
ClientEventDealActivated == 16
ClientEventFailed == 17
ClientEventRestart == 18

ClientEvent == ClientEventOpen..ClientEventRestart

\* The tables of display names of the events, keyed by event code.

ProviderEvents ==
       ProviderEventOpen :> "ProviderEventOpen"
    @@ ProviderEventNodeErrored :> "ProviderEventNodeErrored"
    @@ ProviderEventDealRejected :> "ProviderEventDealRejected"
    @@ ProviderEventDealAccepted :> "ProviderEventDealAccepted"
    @@ ProviderEventWaitingForManualData :> "ProviderEventWaitingForManualData"
    @@ ProviderEventInsufficientFunds :> "ProviderEventInsufficientFunds"
    @@ ProviderEventFundingInitiated :> "ProviderEventFundingInitiated"
    @@ ProviderEventFunded :> "ProviderEventFunded"
    @@ ProviderEventDataTransferFailed :> "ProviderEventDataTransferFailed"
    @@ ProviderEventDataTransferInitiated :> "ProviderEventDataTransferInitiated"
    @@ ProviderEventDataTransferCompleted :> "ProviderEventDataTransferCompleted"
    @@ ProviderEventManualDataReceived :> "ProviderEventManualDataReceived"
    @@ ProviderEventGeneratePieceCIDFailed :> "ProviderEventGeneratePieceCIDFailed"
    @@ ProviderEventVerifiedData :> "ProviderEventVerifiedData"
    @@ ProviderEventSendResponseFailed :> "ProviderEventSendResponseFailed"
    @@ ProviderEventDealPublishInitiated :> "ProviderEventDealPublishInitiated"
    @@ ProviderEventDealPublished :> "ProviderEventDealPublished"
    @@ ProviderEventDealPublishError :> "ProviderEventDealPublishError"
    @@ ProviderEventFileStoreErrored :> "ProviderEventFileStoreErrored"
    @@ ProviderEventDealHandoffFailed :> "ProviderEventDealHandoffFailed"
    @@ ProviderEventDealHandedOff :> "ProviderEventDealHandedOff"
    @@ ProviderEventDealActivationFailed :> "ProviderEventDealActivationFailed"
    @@ ProviderEventUnableToLocatePiece :> "ProviderEventUnableToLocatePiece"
    @@ ProviderEventDealActivated :> "ProviderEventDealActivated"
    @@ ProviderEventPieceStoreErrored :> "ProviderEventPieceStoreErrored"
    @@ ProviderEventReadMetadataErrored :> "ProviderEventReadMetadataErrored"
    @@ ProviderEventDealCompleted :> "ProviderEventDealCompleted"
    @@ ProviderEventFailed :> "ProviderEventFailed"
    @@ ProviderEventRestart :> "ProviderEventRestart"

\* Faulty variant: the restart event named like the others.
ClientEvents_NamesRestart ==
       ClientEventOpen :> "ClientEventOpen"
    @@ ClientEventEnsureFundsFailed :> "ClientEventEnsureFundsFailed"
    @@ ClientEventFundingInitiated :> "ClientEventFundingInitiated"
    @@ ClientEventFundsEnsured :> "ClientEventFundsEnsured"
    @@ ClientEventWriteProposalFailed :> "ClientEventWriteProposalFailed"
    @@ ClientEventDealProposed :> "ClientEventDealProposed"
    @@ ClientEventDealStreamLookupErrored :> "ClientEventDealStreamLookupErrored"
    @@ ClientEventReadResponseFailed :> "ClientEventReadResponseFailed"
    @@ ClientEventResponseVerificationFailed :> "ClientEventResponseVerificationFailed"
    @@ ClientEventResponseDealDidNotMatch :> "ClientEventResponseDealDidNotMatch"
    @@ ClientEventStreamCloseError :> "ClientEventStreamCloseError"
    @@ ClientEventDealRejected :> "ClientEventDealRejected"
    @@ ClientEventDealAccepted :> "ClientEventDealAccepted"
    @@ ClientEventDealPublishFailed :> "ClientEventDealPublishFailed"
    @@ ClientEventDealPublished :> "ClientEventDealPublished"
    @@ ClientEventDealActivationFailed :> "ClientEventDealActivationFailed"
    @@ ClientEventDealActivated :> "ClientEventDealActivated"
    @@ ClientEventFailed :> "ClientEventFailed"
    @@ ClientEventRestart :> "ClientEventRestart"

ClientEvents ==
       ClientEventOpen :> "ClientEventOpen"
    @@ ClientEventEnsureFundsFailed :> "ClientEventEnsureFundsFailed"
    @@ ClientEventFundingInitiated :> "ClientEventFundingInitiated"
    @@ ClientEventFundsEnsured :> "ClientEventFundsEnsured"
    @@ ClientEventWriteProposalFailed :> "ClientEventWriteProposalFailed"
    @@ ClientEventDealProposed :> "ClientEventDealProposed"
    @@ ClientEventDealStreamLookupErrored :> "ClientEventDealStreamLookupErrored"
    @@ ClientEventReadResponseFailed :> "ClientEventReadResponseFailed"
    @@ ClientEventResponseVerificationFailed :> "ClientEventResponseVerificationFailed"
    @@ ClientEventResponseDealDidNotMatch :> "ClientEventResponseDealDidNotMatch"
    @@ ClientEventStreamCloseError :> "ClientEventStreamCloseError"
    @@ ClientEventDealRejected :> "ClientEventDealRejected"
    @@ ClientEventDealAccepted :> "ClientEventDealAccepted"
    @@ ClientEventDealPublishFailed :> "ClientEventDealPublishFailed"
    @@ ClientEventDealPublished :> "ClientEventDealPublished"
    @@ ClientEventDealActivationFailed :> "ClientEventDealActivationFailed"
    @@ ClientEventDealActivated :> "ClientEventDealActivated"
    @@ ClientEventFailed :> "ClientEventFailed"

\* A look-up in a table of names: of a key the table lacks, the empty name.
Lookup(names, e) ==
    IF e \in DOMAIN names
    THEN [found |-> TRUE, name |-> names[e]]
    ELSE [found |-> FALSE, name |-> ""]

TTGraphsync == "graphsync"
TTManual == "manual"

----------------------------------------------------------------------------
\* Values carried by events.  A text is a sequence of fragments, so that
\* wrapping an error keeps the wrapped text: "" is << >>.

Cids == 1..NumCids
DealIDs == 0..MaxDealID
Paths == {"file.txt"}
MetadataPaths == {"", "metadataPath.txt"}
ErrTexts == {<<"could not send">>}

\* xerrors.Errorf(prefix + "%w", err).Error()
Errorf(prefix, err) == <<prefix>> \o err

NoArgs == [err |-> << >>, path |-> "", metadataPath |-> "", cid |-> 0, dealID |-> 0]
ErrArgs(err) == [NoArgs EXCEPT !.err = err]
PathArgs(p, m) == [NoArgs EXCEPT !.path = p, !.metadataPath = m]
CidArgs(c) == [NoArgs EXCEPT !.cid = c]
DealIDArgs(id) == [NoArgs EXCEPT !.dealID = id]

\* The record a new deal starts from: every field zero but the data reference.
MinerDeal(ref) ==
    [ State            |-> StorageDealUnknown,
      AddFundsCid      |-> << >>,
      PublishCid       |-> << >>,
      PiecePath        |-> "",
      MetadataPath     |-> "",
      ConnectionClosed |-> FALSE,
      Message          |-> << >>,
      Ref              |-> ref,
      DealID           |-> 0 ]

----------------------------------------------------------------------------
\* The ProviderEvents transition table: for each event the states it applies
\* from (FromAny is every status), the state it leads to, and its action.

\* Faulty variant: node_errored declared from the non-final states only.
FromStates_NodeErroredNotFinal(e) ==
    CASE e = ProviderEventOpen -> {StorageDealUnknown}
      [] e = ProviderEventNodeErrored ->
            StorageDealStatus \ {StorageDealError, StorageDealCompleted}
      [] OTHER -> {}

FromStates(e) ==
    CASE e = ProviderEventOpen -> {StorageDealUnknown}
      [] e = ProviderEventNodeErrored -> StorageDealStatus
      [] e = ProviderEventDealRejected -> {StorageDealValidating, StorageDealVerifyData}
      [] e = ProviderEventDealAccepted -> {StorageDealValidating}
      [] e = ProviderEventWaitingForManualData -> {StorageDealProposalAccepted}
      [] e = ProviderEventDataTransferFailed -> {StorageDealProposalAccepted, StorageDealTransferring}
      [] e = ProviderEventDataTransferInitiated -> {StorageDealProposalAccepted}
      [] e = ProviderEventDataTransferCompleted -> {StorageDealTransferring}
      [] e = ProviderEventGeneratePieceCIDFailed -> {StorageDealVerifyData}
      [] e = ProviderEventVerifiedData -> {StorageDealVerifyData, StorageDealWaitingForData}
      [] e = ProviderEventFundingInitiated -> {StorageDealEnsureProviderFunds}
      [] e = ProviderEventFunded -> {StorageDealProviderFunding, StorageDealEnsureProviderFunds}
      [] e = ProviderEventDealPublishInitiated -> {StorageDealPublish}
      [] e = ProviderEventDealPublishError -> {StorageDealPublishing}
      [] e = ProviderEventSendResponseFailed -> {StorageDealPublishing, StorageDealFailing}
      [] e = ProviderEventDealPublished -> {StorageDealPublishing}
      [] e = ProviderEventFileStoreErrored -> {StorageDealStaged, StorageDealSealing, StorageDealActive}
      [] e = ProviderEventDealHandoffFailed -> {StorageDealStaged}
      [] e = ProviderEventDealHandedOff -> {StorageDealStaged}
      [] e = ProviderEventDealActivationFailed -> {StorageDealSealing}
      [] e = ProviderEventDealActivated -> {StorageDealSealing}
      [] e = ProviderEventPieceStoreErrored -> {StorageDealActive}
      [] e = ProviderEventDealCompleted -> {StorageDealActive}
      [] e = ProviderEventUnableToLocatePiece -> {StorageDealActive}
      [] e = ProviderEventReadMetadataErrored -> {StorageDealActive}
      [] e = ProviderEventFailed -> {StorageDealFailing}
      [] OTHER -> {}

\* Faulty variants: handoff_failed leading straight to error; verified_data
\* leading straight to publish.
ToState_HandoffFailedToError(e) ==
    CASE e = ProviderEventOpen -> StorageDealValidating
      [] e = ProviderEventDealAccepted -> StorageDealProposalAccepted
      [] e = ProviderEventWaitingForManualData -> StorageDealWaitingForData
      [] e = ProviderEventDataTransferInitiated -> StorageDealTransferring
      [] e = ProviderEventDataTransferCompleted -> StorageDealVerifyData
      [] e = ProviderEventVerifiedData -> StorageDealEnsureProviderFunds
      [] e = ProviderEventFundingInitiated -> StorageDealProviderFunding
      [] e = ProviderEventFunded -> StorageDealPublish
      [] e = ProviderEventDealPublishInitiated -> StorageDealPublishing
      [] e = ProviderEventSendResponseFailed -> StorageDealError
      [] e = ProviderEventDealPublished -> StorageDealStaged
      [] e = ProviderEventDealHandoffFailed -> StorageDealError
      [] e = ProviderEventDealHandedOff -> StorageDealSealing
      [] e = ProviderEventDealActivated -> StorageDealActive
      [] e = ProviderEventDealCompleted -> StorageDealCompleted
      [] e = ProviderEventFailed -> StorageDealError
      [] OTHER -> StorageDealFailing

ToState_VerifiedToPublish(e) ==
    CASE e = ProviderEventOpen -> StorageDealValidating
      [] e = ProviderEventDealAccepted -> StorageDealProposalAccepted
      [] e = ProviderEventWaitingForManualData -> StorageDealWaitingForData
      [] e = ProviderEventDataTransferInitiated -> StorageDealTransferring
      [] e = ProviderEventDataTransferCompleted -> StorageDealVerifyData
      [] e = ProviderEventVerifiedData -> StorageDealPublish
      [] e = ProviderEventFundingInitiated -> StorageDealProviderFunding
      [] e = ProviderEventFunded -> StorageDealPublish
      [] e = ProviderEventDealPublishInitiated -> StorageDealPublishing
      [] e = ProviderEventSendResponseFailed -> StorageDealError
      [] e = ProviderEventDealPublished -> StorageDealStaged
      [] e = ProviderEventDealHandedOff -> StorageDealSealing
      [] e = ProviderEventDealActivated -> StorageDealActive
      [] e = ProviderEventDealCompleted -> StorageDealCompleted
      [] e = ProviderEventFailed -> StorageDealError
      [] OTHER -> StorageDealFailing

ToState(e) ==
    CASE e = ProviderEventOpen -> StorageDealValidating
      [] e = ProviderEventDealAccepted -> StorageDealProposalAccepted
      [] e = ProviderEventWaitingForManualData -> StorageDealWaitingForData
      [] e = ProviderEventDataTransferInitiated -> StorageDealTransferring
      [] e = ProviderEventDataTransferCompleted -> StorageDealVerifyData
      [] e = ProviderEventVerifiedData -> StorageDealEnsureProviderFunds
      [] e = ProviderEventFundingInitiated -> StorageDealProviderFunding
      [] e = ProviderEventFunded -> StorageDealPublish
      [] e = ProviderEventDealPublishInitiated -> StorageDealPublishing
      [] e = ProviderEventSendResponseFailed -> StorageDealError
      [] e = ProviderEventDealPublished -> StorageDealStaged
      [] e = ProviderEventDealHandedOff -> StorageDealSealing
      [] e = ProviderEventDealActivated -> StorageDealActive
      [] e = ProviderEventDealCompleted -> StorageDealCompleted
      [] e = ProviderEventFailed -> StorageDealError
      [] OTHER -> StorageDealFailing

\* The closure attached to the event's row, run on the record before the
\* new state is assigned.
EventAction(d, e, a) ==
    CASE e = ProviderEventNodeErrored ->
            [d EXCEPT !.Message = Errorf("error calling node: ", a.err)]
      [] e = ProviderEventDealRejected ->
            [d EXCEPT !.Message = Errorf("deal rejected: ", a.err)]
      [] e = ProviderEventDataTransferFailed ->
            [d EXCEPT !.Message = Errorf("error transferring data: ", a.err)]
      [] e = ProviderEventGeneratePieceCIDFailed ->
            [d EXCEPT !.Message = Errorf("generating piece committment: ", a.err)]
      [] e = ProviderEventVerifiedData ->
            [d EXCEPT !.PiecePath = a.path, !.MetadataPath = a.metadataPath]
      [] e = ProviderEventFundingInitiated ->
            [d EXCEPT !.AddFundsCid = <<a.cid>>]
      [] e = ProviderEventDealPublishInitiated ->
            [d EXCEPT !.PublishCid = <<a.cid>>]
      [] e = ProviderEventDealPublishError ->
            [d EXCEPT !.Message = Errorf("PublishStorageDeal error: ", a.err)]
      [] e = ProviderEventSendResponseFailed ->
            [d EXCEPT !.Message = Errorf("sending response to deal: ", a.err)]
      [] e = ProviderEventDealPublished ->
            [d EXCEPT !.ConnectionClosed = TRUE, !.DealID = a.dealID]
      [] e = ProviderEventFileStoreErrored ->
            [d EXCEPT !.Message = Errorf("accessing file store: ", a.err)]
      [] e = ProviderEventDealHandoffFailed ->
            [d EXCEPT !.Message = Errorf("handing off deal to node: ", a.err)]
      [] e = ProviderEventDealActivationFailed ->
            [d EXCEPT !.Message = Errorf("error activating deal: ", a.err)]
      [] e = ProviderEventPieceStoreErrored ->
            [d EXCEPT !.Message = Errorf("accessing piece store: ", a.err)]
      [] e = ProviderEventUnableToLocatePiece ->
            [d EXCEPT !.Message =
                <<"locating piece for deal ID ", ToString(d.DealID), " in sector: ">> \o a.err]
      [] e = ProviderEventReadMetadataErrored ->
            [d EXCEPT !.Message = Errorf("error reading piece metadata: ", a.err)]
      [] OTHER -> d

\* Faulty variant: manual_data_received declared from waiting_for_data.
HasRow_ManualDataFromWaiting(s, e) ==
    \/ s \in FromStates(e)
    \/ e = ProviderEventManualDataReceived /\ s = StorageDealWaitingForData

\* Faulty variant: funding_initiated also declared from provider_funding.
HasRow_FundingFromFunding(s, e) ==
    \/ s \in FromStates(e)
    \/ e = ProviderEventFundingInitiated /\ s = StorageDealProviderFunding

\* The rows of the table: (state, event) pairs for which a transition is declared.
HasRow(s, e) == s \in FromStates(e)

\* Faulty variants of the event processor: no check that the table has a row;
\* the row's action not run; published leaving the record in publishing;
\* node_errored setting the message without moving the record; published
\* closing the connection without stamping the deal id.
Apply_NoRowCheck(d, e, a) ==
    [ok |-> TRUE, deal |-> [EventAction(d, e, a) EXCEPT !.State = ToState(e)]]

Apply_SkipAction(d, e, a) ==
    IF HasRow(d.State, e)
    THEN [ok |-> TRUE, deal |-> [d EXCEPT !.State = ToState(e)]]
    ELSE [ok |-> FALSE, deal |-> d]

Apply_PublishedStays(d, e, a) ==
    IF HasRow(d.State, e)
    THEN [ok |-> TRUE,
          deal |-> [EventAction(d, e, a) EXCEPT
                       !.State = IF e = ProviderEventDealPublished
                                 THEN StorageDealPublishing ELSE ToState(e)]]
    ELSE [ok |-> FALSE, deal |-> d]

Apply_NodeErroredStays(d, e, a) ==
    IF HasRow(d.State, e)
    THEN [ok |-> TRUE,
          deal |-> [EventAction(d, e, a) EXCEPT
                       !.State = IF e = ProviderEventNodeErrored THEN d.State ELSE ToState(e)]]
    ELSE [ok |-> FALSE, deal |-> d]

Apply_PublishedKeepsID(d, e, a) ==
    IF HasRow(d.State, e)
    THEN [ok |-> TRUE,
          deal |-> [EventAction(d, e, a) EXCEPT !.State = ToState(e), !.DealID = d.DealID]]
    ELSE [ok |-> FALSE, deal |-> d]

\* Faulty variants: send_response_failed leading to failing instead of
\* error; failed clearing the message of the record.
Apply_SendFailedToFailing(d, e, a) ==
    IF HasRow(d.State, e)
    THEN [ok |-> TRUE,
          deal |-> [EventAction(d, e, a) EXCEPT
                       !.State = IF e = ProviderEventSendResponseFailed
                                 THEN StorageDealFailing ELSE ToState(e)]]
    ELSE [ok |-> FALSE, deal |-> d]

Apply_FailedClearsMessage(d, e, a) ==
    IF HasRow(d.State, e)
    THEN [ok |-> TRUE,
          deal |-> [EventAction(d, e, a) EXCEPT
                       !.State = ToState(e),
                       !.Message = IF e = ProviderEventFailed THEN << >> ELSE @]]
    ELSE [ok |-> FALSE, deal |-> d]

\* Faulty variant: failed sending the record back to validating.
Apply_FailedToValidating(d, e, a) ==
    IF HasRow(d.State, e)
    THEN [ok |-> TRUE,
          deal |-> [EventAction(d, e, a) EXCEPT
                       !.State = IF e = ProviderEventFailed
                                 THEN StorageDealValidating ELSE ToState(e)]]
    ELSE [ok |-> FALSE, deal |-> d]

\* The event processor applied to one event: the action runs and the new
\* state is assigned when the table has a row; otherwise the event is
\* rejected ("invalid transition") and the record is returned as it was.
Apply(d, e, a) ==
    IF HasRow(d.State, e)
    THEN [ok |-> TRUE, deal |-> [EventAction(d, e, a) EXCEPT !.State = ToState(e)]]
    ELSE [ok |-> FALSE, deal |-> d]

\* Faulty variants: no handler registered for failing; none for staged.
ProviderStateEntryFuncs_NoHandoffDeal ==
    { StorageDealValidating, StorageDealProposalAccepted, StorageDealVerifyData,
      StorageDealEnsureProviderFunds, StorageDealProviderFunding, StorageDealPublish,
      StorageDealPublishing, StorageDealSealing, StorageDealActive, StorageDealFailing }

ProviderStateEntryFuncs_NoFailDeal ==
    { StorageDealValidating, StorageDealProposalAccepted, StorageDealVerifyData,
      StorageDealEnsureProviderFunds, StorageDealProviderFunding, StorageDealPublish,
      StorageDealPublishing, StorageDealStaged, StorageDealSealing, StorageDealActive }

ProviderStateEntryFuncs ==
    { StorageDealValidating, StorageDealProposalAccepted, StorageDealVerifyData,
      StorageDealEnsureProviderFunds, StorageDealProviderFunding, StorageDealPublish,
      StorageDealPublishing, StorageDealStaged, StorageDealSealing, StorageDealActive,
      StorageDealFailing }

\* Faulty variant: completed left out of the finality states.
ProviderFinalityStates_NoCompleted == {StorageDealError}

ProviderFinalityStates == {StorageDealError, StorageDealCompleted}

\* group.IsTerminated(deal)
IsTerminated(d) == d.State \in ProviderFinalityStates

----------------------------------------------------------------------------
\* The parameters the handlers' tests run validate_deal_proposal with, and
\* the fake chain node that answers it.

defaultHeight == 50
defaultStoragePricePerEpoch == 10000
defaultPieceSize == 1048576
defaultStartEpoch == 200
defaultEndEpoch == 400
defaultClientAddress == "t1-client"
defaultProviderAddress == "t2-provider"
otherAddr == "applesauce"
defaultClientCollateral == 0
defaultClientMarketBalance == 200 * 10000

\* Faulty variants: another asking price; another minimum piece size.
defaultAsk_HalfPrice ==
    [Price |-> 5000000, MinPieceSize |-> 256, MaxPieceSize |-> 1048576]

defaultAsk_MinPieceSize512 ==
    [Price |-> 10000000, MinPieceSize |-> 512, MaxPieceSize |-> 1048576]

defaultAsk ==
    [Price |-> 10000000, MinPieceSize |-> 256, MaxPieceSize |-> 1048576]

NoError == << >>

\* nodeParams, dealParams and environmentParams left at their zero values,
\* after the executor has put the defaults in.
defaultParams ==
    [ VerifySignatureFails     |-> FALSE,
      Address                  |-> defaultProviderAddress,
      MostRecentStateIDError   |-> NoError,
      Height                   |-> defaultHeight,
      DealAcceptanceBuffer     |-> 0,
      StartEpoch               |-> defaultStartEpoch,
      EndEpoch                 |-> defaultEndEpoch,
      StoragePricePerEpoch     |-> defaultStoragePricePerEpoch,
      PieceSize                |-> defaultPieceSize,
      ClientCollateral         |-> defaultClientCollateral,
      ClientMarketBalance      |-> defaultClientMarketBalance,
      ClientMarketBalanceError |-> NoError ]

Heights == {defaultHeight, 190, 191}
DealAcceptanceBuffers == {0, 10}
StoragePrices == {5000, 9764, 9765, defaultStoragePricePerEpoch}
PieceSizes == {128, 255, 256, defaultPieceSize, defaultPieceSize + 1}
ClientCollaterals == {defaultClientCollateral, 1}
ClientMarketBalances ==
    {150 * 10000, defaultClientMarketBalance - 1, defaultClientMarketBalance}

ValidateInputs ==
    [ VerifySignatureFails     : BOOLEAN,
      Address                  : {defaultProviderAddress, otherAddr},
      MostRecentStateIDError   : {NoError, <<"couldn't get id">>},
      Height                   : Heights,
      DealAcceptanceBuffer     : DealAcceptanceBuffers,
      StartEpoch               : {defaultStartEpoch},
      EndEpoch                 : {defaultEndEpoch},
      StoragePricePerEpoch     : StoragePrices,
      PieceSize                : PieceSizes,
      ClientCollateral         : ClientCollaterals,
      ClientMarketBalance      : ClientMarketBalances,
      ClientMarketBalanceError : {NoError, <<"could not get balance">>} ]

\* The market.DealProposal the executor signs.
Proposal(p) ==
    [ PieceSize            |-> p.PieceSize,
      Client               |-> defaultClientAddress,
      Provider             |-> defaultProviderAddress,
      StartEpoch           |-> p.StartEpoch,
      EndEpoch             |-> p.EndEpoch,
      StoragePricePerEpoch |-> p.StoragePricePerEpoch,
      ClientCollateral     |-> p.ClientCollateral ]

\* NewStorageMarketState, then Epoch set and AddFunds for the client.
StorageMarketState(p) ==
    [ Epoch    |-> p.Height,
      Balances |-> [addr \in {defaultClientAddress} |-> p.ClientMarketBalance] ]

\* Faulty variant: the funds reported as locked, none available.
Balance_AllLocked(sma, addr) ==
    IF addr \in DOMAIN sma.Balances
    THEN [Locked |-> sma.Balances[addr], Available |-> 0]
    ELSE [Locked |-> 0, Available |-> 0]

\* StorageMarketState.Balance
Balance(sma, addr) ==
    IF addr \in DOMAIN sma.Balances
    THEN [Locked |-> 0, Available |-> sma.Balances[addr]]
    ELSE [Locked |-> 0, Available |-> 0]

FakeCommonNode(p) ==
    [ SMState              |-> StorageMarketState(p),
      GetChainHeadError    |-> p.MostRecentStateIDError,
      GetBalanceError      |-> p.ClientMarketBalanceError,
      VerifySignatureFails |-> p.VerifySignatureFails ]

\* Faulty variant: the epoch of the chain head reported one less than it is.
GetChainHead_EpochBehind(n) ==
    IF n.GetChainHeadError = NoError
    THEN [epoch |-> n.SMState.Epoch - 1, err |-> NoError]
    ELSE [epoch |-> 0, err |-> n.GetChainHeadError]

\* FakeCommonNode.GetChainHead
GetChainHead(n) ==
    IF n.GetChainHeadError = NoError
    THEN [epoch |-> n.SMState.Epoch, err |-> NoError]
    ELSE [epoch |-> 0, err |-> n.GetChainHeadError]

\* FakeCommonNode.GetBalance
GetBalance(n, addr) ==
    IF n.GetBalanceError = NoError
    THEN [balance |-> Balance(n.SMState, addr), err |-> NoError]
    ELSE [balance |-> [Locked |-> 0, Available |-> 0], err |-> n.GetBalanceError]

\* FakeCommonNode.VerifySignature
VerifySignature(n) == ~n.VerifySignatureFails

\* The string a message of fragments stands for.
RECURSIVE Text(_)
Text(m) == IF m = << >> THEN "" ELSE Head(m) \o Text(Tail(m))

\* floor(a * b / 2^30) for a, b < 2^30, computed on 15-bit limbs so that no
\* intermediate product leaves the range of the integers of the checker
\* (the code computes it on arbitrary-precision integers).
Limb == 32768

MulDivGiB(a, b) ==
    LET ah == a \div Limb
        al == a % Limb
        bh == b \div Limb
        bl == b % Limb
    IN  ah * bh + ((ah * bl + al * bh + ((al * bl) \div Limb)) \div Limb)

\* The ask price scaled to the size of the piece.
MinPrice(ask, pieceSize) == MulDivGiB(ask.Price, pieceSize)

\* proposal.ClientBalanceRequirement(): collateral plus the total storage fee.
ClientBalanceRequirement(prop) ==
    prop.ClientCollateral + prop.StoragePricePerEpoch * (prop.EndEpoch - prop.StartEpoch)

Rejected(err) == [event |-> ProviderEventDealRejected, args |-> ErrArgs(err)]
NodeError(err) == [event |-> ProviderEventNodeErrored, args |-> ErrArgs(err)]
Accepted == [event |-> ProviderEventDealAccepted, args |-> NoArgs]

\* The checks of validate_deal_proposal in the order they are made; the
\* first that fails decides the event the handler fires.
ValidateDealProposalOutcome(p) ==
    LET node == FakeCommonNode(p)
        prop == Proposal(p)
        ask == defaultAsk
        head == GetChainHead(node)
        minPrice == MinPrice(ask, prop.PieceSize)
        bal == GetBalance(node, prop.Client)
    IN  IF ~VerifySignature(node)
        THEN Rejected(Errorf("verifying StorageDealProposal: ", <<"could not verify signature">>))
        ELSE IF prop.Provider # p.Address
        THEN Rejected(<<"incorrect provider for deal">>)
        ELSE IF head.err # NoError
        THEN NodeError(Errorf("getting most recent state id: ", head.err))
        ELSE IF head.epoch > prop.StartEpoch - p.DealAcceptanceBuffer
        THEN Rejected(<<"deal start epoch is too soon or deal already expired">>)
        ELSE IF prop.StoragePricePerEpoch < minPrice
        THEN Rejected(<<"storage price per epoch less than asking price: ",
                        ToString(prop.StoragePricePerEpoch), " < ", ToString(minPrice)>>)
        ELSE IF prop.PieceSize < ask.MinPieceSize
        THEN Rejected(<<"piece size less than minimum required size: ",
                        ToString(prop.PieceSize), " < ", ToString(ask.MinPieceSize)>>)
        ELSE IF prop.PieceSize > ask.MaxPieceSize
        THEN Rejected(<<"piece size more than maximum allowed size: ",
                        ToString(prop.PieceSize), " > ", ToString(ask.MaxPieceSize)>>)
        ELSE IF bal.err # NoError
        THEN NodeError(Errorf("getting client market balance failed: ", bal.err))
        ELSE IF bal.balance.Available < ClientBalanceRequirement(prop)
        THEN Rejected(<<"clientMarketBalance.Available too small">>)
        ELSE Accepted

----------------------------------------------------------------------------
\* The collaborators of the other handlers, as their tests set them up: the
\* file store, the piece store and the provider node.

defaultPath == "file.txt"
defaultMetadataPath == "metadataPath.txt"
defaultProviderCollateral == 0
\* tut.GenerateCids(1)[0]: the first generated CID.
defaultPieceCid == 1
TestErrNotFound == <<"file not found">>
ExitCodeOk == "Ok(0)"
SysErrForbidden == "SysErrForbidden(8)"
NonOkExitCodes == {SysErrForbidden}

FileNames == {defaultPath, defaultMetadataPath}

\* The stores empty and the node never asked to seal.
NoExt ==
    [ Files                |-> {},
      DealsForPiece        |-> {},
      BlockLocations       |-> FALSE,
      OnDealCompleteCalled |-> FALSE ]

\* nodeParams, environmentParams, pieceStoreParams and the collateral of
\* dealParams left at their zero values: no collaborator fails.  A CID of 0
\* is cid.Undef.
nodeParams ==
    [ MinerWorkerError                    |-> NoError,
      EnsureFundsError                    |-> NoError,
      AddFundsCid                         |-> 0,
      ProviderCollateral                  |-> defaultProviderCollateral,
      WaitForMessageBlocks                |-> FALSE,
      WaitForMessageExitCode              |-> ExitCodeOk,
      WaitForMessageRetBytes              |-> <<0>>,
      SendSignedResponseError             |-> NoError,
      OnDealCompleteError                 |-> NoError,
      LocatePieceForDealWithinSectorError |-> NoError,
      AddPieceBlockLocationsError         |-> NoError,
      AddDealForPieceError                |-> NoError,
      DealCommittedSyncError              |-> NoError,
      DealCommittedAsyncError             |-> NoError,
      DataTransferError                   |-> NoError,
      PieceCid                            |-> 0,
      Path                                |-> "",
      MetadataPath                        |-> "",
      GenerateCommPError                  |-> NoError ]

FakeProviderNode(p) ==
    [ SMState                             |-> StorageMarketState(defaultParams),
      EnsureFundsError                    |-> p.EnsureFundsError,
      AddFundsCid                         |-> p.AddFundsCid,
      WaitForMessageBlocks                |-> p.WaitForMessageBlocks,
      WaitForMessageExitCode              |-> p.WaitForMessageExitCode,
      WaitForMessageRetBytes              |-> p.WaitForMessageRetBytes,
      DealCommittedSyncError              |-> p.DealCommittedSyncError,
      DealCommittedAsyncError             |-> p.DealCommittedAsyncError,
      MinerAddr                           |-> "miner",
      MinerWorkerError                    |-> p.MinerWorkerError,
      OnDealCompleteError                 |-> p.OnDealCompleteError,
      LocatePieceForDealWithinSectorError |-> p.LocatePieceForDealWithinSectorError ]

\* FakeCommonNode.AddFunds: the CID the node was given to answer with.
AddFunds(n) == [cid |-> n.AddFundsCid, err |-> NoError]

\* Faulty variant: funds are added whatever the balance is.
EnsureFunds_AlwaysAdds(n, addr, amount) ==
    IF n.EnsureFundsError = NoError
    THEN AddFunds(n)
    ELSE [cid |-> 0, err |-> n.EnsureFundsError]

\* FakeCommonNode.EnsureFunds
EnsureFunds(n, addr, amount) ==
    IF n.EnsureFundsError = NoError /\ Balance(n.SMState, addr).Available < amount
    THEN AddFunds(n)
    ELSE [cid |-> 0, err |-> n.EnsureFundsError]

\* Faulty variant: the message is always reported as having exited ok.
WaitForMessage_AlwaysOk(n) ==
    [ completed |-> ~n.WaitForMessageBlocks,
      code      |-> ExitCodeOk,
      ret       |-> n.WaitForMessageRetBytes ]

\* Faulty variant: onCompletion is called even by a node that blocks.
WaitForMessage_IgnoresBlocks(n) ==
    [ completed |-> TRUE,
      code      |-> n.WaitForMessageExitCode,
      ret       |-> n.WaitForMessageRetBytes ]

\* FakeCommonNode.WaitForMessage, for a node whose WaitForMessageError is
\* left at its zero value: a node that blocks returns without calling
\* onCompletion; otherwise onCompletion is called with the exit code and the
\* return value of the node.
WaitForMessage(n) ==
    [ completed |-> ~n.WaitForMessageBlocks,
      code      |-> n.WaitForMessageExitCode,
      ret       |-> n.WaitForMessageRetBytes ]

\* FakeProviderNode.GetMinerWorkerAddress
GetMinerWorkerAddress(n) ==
    IF n.MinerWorkerError = NoError
    THEN [addr |-> n.MinerAddr, err |-> NoError]
    ELSE [addr |-> "", err |-> n.MinerWorkerError]

\* Faulty variant: the node's failure to build the sector is not reported.
OnDealComplete_NeverFails(n) == NoError

\* FakeProviderNode.OnDealComplete
OnDealComplete(n) == n.OnDealCompleteError

\* Faulty variant: the callback is called whatever the subscription returns.
OnDealSectorCommitted_AlwaysCallsBack(n) ==
    [ called |-> TRUE,
      cb     |-> n.DealCommittedAsyncError,
      err    |-> n.DealCommittedSyncError ]

\* FakeProviderNode.OnDealSectorCommitted: the callback is called, with the
\* asynchronous error, only when there is no synchronous error to return.
OnDealSectorCommitted(n) ==
    [ called |-> n.DealCommittedSyncError = NoError,
      cb     |-> n.DealCommittedAsyncError,
      err    |-> n.DealCommittedSyncError ]

\* Faulty variant: a piece that cannot be located is not reported.
LocatePieceForDealWithinSector_NeverFails(n) == NoError

\* FakeProviderNode.LocatePieceForDealWithinSector
LocatePieceForDealWithinSector(n) == n.LocatePieceForDealWithinSectorError

\* Faulty variant: a failure to open the channel is not reported.
StartDataTransfer_NeverFails(p) == NoError

\* fakeEnvironment.StartDataTransfer
StartDataTransfer(p) == p.DataTransferError

\* Faulty variant: the piece CID computed is always the proposal's.
GeneratePieceCommitmentToFile_ProposalCid(p) ==
    [ cid          |-> defaultPieceCid,
      path         |-> IF p.Path = "" THEN defaultPath ELSE p.Path,
      metadataPath |-> IF p.MetadataPath = "" THEN defaultMetadataPath ELSE p.MetadataPath,
      err          |-> p.GenerateCommPError ]

\* fakeEnvironment.GeneratePieceCommitmentToFile, with the defaults the
\* executor gives the environment for a CID or a path left unset.
GeneratePieceCommitmentToFile(p) ==
    [ cid          |-> IF p.PieceCid = 0 THEN defaultPieceCid ELSE p.PieceCid,
      path         |-> IF p.Path = "" THEN defaultPath ELSE p.Path,
      metadataPath |-> IF p.MetadataPath = "" THEN defaultMetadataPath ELSE p.MetadataPath,
      err          |-> p.GenerateCommPError ]

\* fakeEnvironment.SendSignedResponse
fakeSendSignedResponse(p) == p.SendSignedResponseError

\* The test file store: a file that is not there cannot be opened.
FileStoreOpen(files, path) == IF path \in files THEN NoError ELSE TestErrNotFound

\* Faulty variant: a deletion that leaves the file where it is.
FileStoreDelete_KeepsFile(files, path) == files

FileStoreDelete(files, path) == files \ {path}

\* The deletions of the piece file and of the metadata file of a record,
\* each only when the record names it.
DeleteDealFiles(files, d) ==
    LET f1 == IF d.PiecePath # "" THEN FileStoreDelete(files, d.PiecePath) ELSE files
    IN  IF d.MetadataPath # "" THEN FileStoreDelete(f1, d.MetadataPath) ELSE f1

----------------------------------------------------------------------------
\* What a handler does when run for record d with the stores x and the
\* parameters p: the event it fires, the stores as it leaves them, and
\* whether it tried to send a signed response.

\* fired counts the events the handler fired; the first is the one applied
\* to the record.  calls names what the handler asked of the network of its
\* environment, beside sending a response.
Outcome(e, a, x, sent) ==
    [event |-> e, args |-> a, ext |-> x, responded |-> sent, fired |-> 1, calls |-> {}]

\* The handler returned without firing an event: the completion it waits
\* for has not been called.
Waiting(x) == [Outcome(ProviderEventOpen, NoArgs, x, FALSE) EXCEPT !.fired = 0]

\* The stores once the piece commitment has been generated to the files p
\* and m: the files are there.
Generated(x, p, m) == [x EXCEPT !.Files = @ \cup ({p, m} \ {""})]

\* Faulty variant: the connection is left untagged.
TagConnection_Forgets(tags) == tags

\* fakeEnvironment.TagConnection: the proposal of the record is among the
\* tags received.
TagConnection(tags) == tags \cup {"TagConnection"}

\* What validate_deal_proposal does when its checks ended in r: it fires the
\* event of r, and tags the connection once the proposal is accepted.
Validated(r, x) ==
    [Outcome(r.event, r.args, x, FALSE) EXCEPT
        !.calls = IF r.event = ProviderEventDealAccepted THEN TagConnection(@) ELSE @]

TransferDataOutcome(d, x, p) ==
    LET opened == StartDataTransfer(p)
    IN  IF d.Ref.TransferType = TTManual
        THEN Outcome(ProviderEventWaitingForManualData, NoArgs, x, FALSE)
        ELSE [(IF opened # NoError
               THEN Outcome(ProviderEventDataTransferFailed,
                            ErrArgs(Errorf("failed to open pull data channel: ", opened)),
                            x, FALSE)
               ELSE Outcome(ProviderEventDataTransferInitiated, NoArgs, x, FALSE))
              EXCEPT !.calls = {"StartDataTransfer"}]

\* The proposal of every row carries defaultPieceCid.
VerifyDataOutcome(d, x, p) ==
    LET g == GeneratePieceCommitmentToFile(p)
    IN  IF g.err # NoError
        THEN Outcome(ProviderEventGeneratePieceCIDFailed, ErrArgs(g.err), x, FALSE)
        ELSE IF g.cid # defaultPieceCid
        THEN Outcome(ProviderEventDealRejected,
                     ErrArgs(<<"proposal CommP doesn't match calculated CommP">>),
                     Generated(x, g.path, g.metadataPath), FALSE)
        ELSE Outcome(ProviderEventVerifiedData, PathArgs(g.path, g.metadataPath),
                     Generated(x, g.path, g.metadataPath), FALSE)

\* The events verify_deal_activated fires, in order: the one of the
\* callback, when the node calls it, then the one for the error the
\* subscription returned.
VerifyDealActivatedTriggers(p) ==
    LET r == OnDealSectorCommitted(FakeProviderNode(p))
        failed(err) == [event |-> ProviderEventDealActivationFailed, args |-> ErrArgs(err)]
        activated == [event |-> ProviderEventDealActivated, args |-> NoArgs]
    IN  (IF r.called THEN <<IF r.cb # NoError THEN failed(r.cb) ELSE activated>> ELSE << >>)
            \o (IF r.err # NoError THEN <<failed(r.err)>> ELSE << >>)

VerifyDealActivatedOutcome(d, x, p) ==
    LET ts == VerifyDealActivatedTriggers(p)
    IN  IF ts = << >>
        THEN Waiting(x)
        ELSE [Outcome(Head(ts).event, Head(ts).args, x, FALSE) EXCEPT !.fired = Len(ts)]

WaitForFundingOutcome(d, x, p) ==
    LET w == WaitForMessage(FakeProviderNode(p))
    IN  IF ~w.completed
        THEN Waiting(x)
        ELSE IF w.code # ExitCodeOk
        THEN Outcome(ProviderEventNodeErrored,
                     ErrArgs(<<"AddFunds exit code: ", w.code>>), x, FALSE)
        ELSE Outcome(ProviderEventFunded, NoArgs, x, FALSE)

EnsureProviderFundsOutcome(d, x, p) ==
    LET n      == FakeProviderNode(p)
        worker == GetMinerWorkerAddress(n)
        funds  == EnsureFunds(n, defaultProviderAddress, p.ProviderCollateral)
    IN  IF worker.err # NoError
        THEN Outcome(ProviderEventNodeErrored,
                     ErrArgs(Errorf("looking up miner worker: ", worker.err)), x, FALSE)
        ELSE IF funds.err # NoError
        THEN Outcome(ProviderEventNodeErrored,
                     ErrArgs(Errorf("ensuring funds: ", funds.err)), x, FALSE)
        ELSE IF funds.cid = 0
        THEN Outcome(ProviderEventFunded, NoArgs, x, FALSE)
        ELSE Outcome(ProviderEventFundingInitiated, CidArgs(funds.cid), x, FALSE)

WaitForPublishOutcome(d, x, p) ==
    LET w    == WaitForMessage(FakeProviderNode(p))
        send == fakeSendSignedResponse(p)
    IN  IF ~w.completed
        THEN Waiting(x)
        ELSE IF w.code # ExitCodeOk
        THEN Outcome(ProviderEventDealPublishError,
                     ErrArgs(<<"PublishStorageDeals exit code: ", w.code>>), x, FALSE)
        ELSE IF send # NoError
        THEN Outcome(ProviderEventSendResponseFailed, ErrArgs(send), x, TRUE)
        ELSE Outcome(ProviderEventDealPublished, DealIDArgs(Head(w.ret)), x, TRUE)

HandoffDealOutcome(d, x, p) ==
    LET file   == FileStoreOpen(x.Files, d.PiecePath)
        sealed == OnDealComplete(FakeProviderNode(p))
        called == [x EXCEPT !.OnDealCompleteCalled = TRUE]
    IN  IF file # NoError
        THEN Outcome(ProviderEventFileStoreErrored,
                     ErrArgs(<<"reading piece at path ", d.PiecePath, ": ">> \o file), x, FALSE)
        ELSE IF sealed # NoError
        THEN Outcome(ProviderEventDealHandoffFailed, ErrArgs(sealed), called, FALSE)
        ELSE Outcome(ProviderEventDealHandedOff, NoArgs, called, FALSE)

\* Faulty variant: block locations are registered only for a record that
\* names a metadata file.
RecordPieceInfoOutcome_SkipsWithoutMetadata(d, x, p) ==
    LET located  == LocatePieceForDealWithinSector(FakeProviderNode(p))
        metadata == IF d.MetadataPath # "" THEN FileStoreOpen(x.Files, d.MetadataPath)
                                           ELSE NoError
        located2 == IF d.MetadataPath # "" THEN [x EXCEPT !.BlockLocations = TRUE] ELSE x
        recorded == [located2 EXCEPT !.DealsForPiece = @ \cup {d.DealID}]
    IN  IF located # NoError
        THEN Outcome(ProviderEventUnableToLocatePiece,
                     [ErrArgs(located) EXCEPT !.dealID = d.DealID], x, FALSE)
        ELSE IF metadata # NoError
        THEN Outcome(ProviderEventReadMetadataErrored, ErrArgs(metadata), x, FALSE)
        ELSE IF d.MetadataPath # "" /\ p.AddPieceBlockLocationsError # NoError
        THEN Outcome(ProviderEventPieceStoreErrored,
                     ErrArgs(Errorf("adding piece block locations: ",
                                    p.AddPieceBlockLocationsError)), x, FALSE)
        ELSE IF p.AddDealForPieceError # NoError
        THEN Outcome(ProviderEventPieceStoreErrored,
                     ErrArgs(Errorf("adding deal info for piece: ",
                                    p.AddDealForPieceError)), located2, FALSE)
        ELSE Outcome(ProviderEventDealCompleted, NoArgs,
                     [recorded EXCEPT !.Files = DeleteDealFiles(@, d)], FALSE)

RecordPieceInfoOutcome(d, x, p) ==
    LET located  == LocatePieceForDealWithinSector(FakeProviderNode(p))
        metadata == IF d.MetadataPath # "" THEN FileStoreOpen(x.Files, d.MetadataPath)
                                           ELSE NoError
        located2 == [x EXCEPT !.BlockLocations = TRUE]
        recorded == [located2 EXCEPT !.DealsForPiece = @ \cup {d.DealID}]
    IN  IF located # NoError
        THEN Outcome(ProviderEventUnableToLocatePiece,
                     [ErrArgs(located) EXCEPT !.dealID = d.DealID], x, FALSE)
        ELSE IF metadata # NoError
        THEN Outcome(ProviderEventReadMetadataErrored, ErrArgs(metadata), x, FALSE)
        ELSE IF p.AddPieceBlockLocationsError # NoError
        THEN Outcome(ProviderEventPieceStoreErrored,
                     ErrArgs(Errorf("adding piece block locations: ",
                                    p.AddPieceBlockLocationsError)), x, FALSE)
        ELSE IF p.AddDealForPieceError # NoError
        THEN Outcome(ProviderEventPieceStoreErrored,
                     ErrArgs(Errorf("adding deal info for piece: ",
                                    p.AddDealForPieceError)), located2, FALSE)
        ELSE Outcome(ProviderEventDealCompleted, NoArgs,
                     [recorded EXCEPT !.Files = DeleteDealFiles(@, d)], FALSE)

FailDealOutcome(d, x, p) ==
    LET send == fakeSendSignedResponse(p)
    IN  IF ~d.ConnectionClosed /\ send # NoError
        THEN Outcome(ProviderEventSendResponseFailed, ErrArgs(send), x, TRUE)
        ELSE Outcome(ProviderEventFailed, NoArgs,
                     [x EXCEPT !.Files = DeleteDealFiles(@, d)], ~d.ConnectionClosed)

\* The parameters the rows of each handler's test vary.
PublishReturns == {<<i>> : i \in DealIDs} \cup {<<i, j>> : i \in DealIDs, j \in DealIDs}

EnsureProviderFundsParams ==
    {[nodeParams EXCEPT !.MinerWorkerError = a, !.EnsureFundsError = b,
                        !.AddFundsCid = c, !.ProviderCollateral = k] :
        a \in {NoError, <<"could not get worker">>},
        b \in {NoError, <<"not enough funds">>},
        c \in {0} \cup Cids,
        k \in {defaultProviderCollateral, 1}}

\* The wait for the funds-addition message has ended, with either exit code.
WaitForFundingParams ==
    {[nodeParams EXCEPT !.WaitForMessageExitCode = c] : c \in {ExitCodeOk} \cup NonOkExitCodes}

TransferDataParams ==
    {[nodeParams EXCEPT !.DataTransferError = x] : x \in {NoError} \cup ErrTexts}

VerifyDataParams ==
    {[nodeParams EXCEPT !.PieceCid = c, !.GenerateCommPError = x, !.MetadataPath = m] :
        c \in {0} \cup Cids, x \in {NoError} \cup ErrTexts, m \in MetadataPaths}

VerifyDealActivatedParams ==
    {[nodeParams EXCEPT !.DealCommittedSyncError = a, !.DealCommittedAsyncError = b] :
        a \in {NoError} \cup ErrTexts,
        b \in {NoError, <<"deal did not appear on chain">>}}

\* The rows of wait_for_funding: the wait has ended, or the node blocks.
WaitForFundingRows ==
    {[p EXCEPT !.WaitForMessageBlocks = b] : p \in WaitForFundingParams, b \in BOOLEAN}

WaitForPublishParams ==
    {[nodeParams EXCEPT !.WaitForMessageExitCode = c, !.WaitForMessageRetBytes = r,
                        !.SendSignedResponseError = x] :
        c \in {ExitCodeOk, SysErrForbidden},
        r \in PublishReturns,
        x \in {NoError, <<"could not send">>}}

HandoffDealParams ==
    {[nodeParams EXCEPT !.OnDealCompleteError = x] :
        x \in {NoError, <<"failed building sector">>}}

RecordPieceInfoParams ==
    {[nodeParams EXCEPT !.LocatePieceForDealWithinSectorError = a,
                        !.AddPieceBlockLocationsError = b,
                        !.AddDealForPieceError = c] :
        a \in {NoError, <<"could not find piece">>},
        b \in {NoError, <<"could not add block locations">>},
        c \in {NoError, <<"could not add deal info">>}}

FailDealParams ==
    {[nodeParams EXCEPT !.SendSignedResponseError = x] :
        x \in {NoError, <<"could not send">>}}

----------------------------------------------------------------------------
\* Firing an event on the record: the event processor applies it, the record
\* is persisted, and on a successful transition the handler registered for
\* the state entered is dispatched.

Fire(e, a) ==
    LET r == Apply(deal, e, a)
        ok == r.ok
        d2 == r.deal
    IN  /\ deal' = d2
        /\ pending' = IF ok THEN d2.State \in ProviderStateEntryFuncs ELSE pending
        /\ visited' = visited \cup {d2.State}
        /\ stamped' = IF ok /\ e = ProviderEventDealPublished THEN <<a.dealID>> ELSE stamped
        /\ trail' = IF ok /\ deal.State \notin {StorageDealFailing, StorageDealError}
                    THEN Append(trail, d2.State) ELSE trail

Emit(e, a) == Fire(e, a) /\ UNCHANGED <<last, probe, down, vin, ext, hp, shown, hub>>

\* A handler's attempt to send a signed response to the client.
SendSignedResponse == sentClosed' = (sentClosed \/ deal.ConnectionClosed)

NoResponse == UNCHANGED sentClosed

\* A handler has run with outcome r: its event is fired, the stores are as
\* it left them, and the response it tried to send is accounted for.
Effect(r) ==
    IF r.fired > 0
    THEN /\ Fire(r.event, r.args)
         /\ ext' = r.ext
         /\ IF r.responded THEN SendSignedResponse ELSE NoResponse
         /\ UNCHANGED <<last, probe, down, vin, shown, hub>>
    ELSE /\ pending' = FALSE
         /\ ext' = r.ext
         /\ UNCHANGED <<deal, last, probe, visited, sentClosed, stamped, trail,
                        down, vin, shown, hub>>

\* The network of the environment is not part of the provider's state: what
\* was asked of it is noted only for a handler run on its own.
Run(r) == Effect(r) /\ UNCHANGED hp

\* The same for a handler run on its own on the record of a row: the number
\* of events it fired and what it asked of the network are noted on the row.
RunRow(r) == Effect(r) /\ hp' = [hp EXCEPT !.Fired = r.fired, !.Calls = r.calls]

\* The arguments an event can carry.
Errs == ErrTexts \cup {<< >>}

Payloads(e) ==
    CASE e \in { ProviderEventNodeErrored, ProviderEventDealRejected,
                 ProviderEventDataTransferFailed, ProviderEventGeneratePieceCIDFailed,
                 ProviderEventDealPublishError, ProviderEventSendResponseFailed,
                 ProviderEventFileStoreErrored, ProviderEventDealHandoffFailed,
                 ProviderEventDealActivationFailed, ProviderEventPieceStoreErrored,
                 ProviderEventReadMetadataErrored } -> {ErrArgs(x) : x \in Errs}
      [] e = ProviderEventUnableToLocatePiece ->
            {[ErrArgs(x) EXCEPT !.dealID = i] : x \in Errs, i \in DealIDs}
      [] e = ProviderEventVerifiedData ->
            {PathArgs(p, m) : p \in Paths, m \in MetadataPaths}
      [] e \in {ProviderEventFundingInitiated, ProviderEventDealPublishInitiated} ->
            {CidArgs(c) : c \in Cids}
      [] e = ProviderEventDealPublished -> {DealIDArgs(i) : i \in DealIDs}
      [] OTHER -> {NoArgs}

NoEvent == [event |-> ProviderEventOpen, args |-> NoArgs, applied |-> FALSE, n |-> 0]
NoQuery == [status |-> StorageDealUnknown, terminated |-> FALSE, asked |-> FALSE]
\* No handler run on its own: no row.
NoRow ==
    [ Deal  |-> MinerDeal([TransferType |-> TTGraphsync]),
      Ext   |-> NoExt,
      P     |-> nodeParams,
      Fired |-> 0,
      Calls |-> {} ]
NoLookup == [table |-> "", code |-> 0, found |-> FALSE, name |-> "", asked |-> FALSE]
\* The hub before any event: nothing applied, nobody subscribed.
NoHub ==
    [ applied      |-> << >>,
      subscribed   |-> FALSE,
      unsubscribed |-> FALSE,
      from         |-> 0,
      delivered    |-> << >> ]

Init ==
    /\ deal \in {MinerDeal([TransferType |-> t]) : t \in {TTGraphsync, TTManual}}
    /\ pending = FALSE
    /\ last = NoEvent
    /\ probe = NoQuery
    /\ visited = {StorageDealUnknown}
    /\ sentClosed = FALSE
    /\ stamped = << >>
    /\ trail = <<StorageDealUnknown>>
    /\ down = FALSE
    /\ vin = defaultParams
    /\ ext = NoExt
    /\ hp = NoRow
    /\ shown = NoLookup
    /\ hub = NoHub

\* An inbound proposal is accepted into the engine.
Open ==
    /\ deal.State = StorageDealUnknown
    /\ Emit(ProviderEventOpen, NoArgs)
    /\ NoResponse

\* Any event sent to the record from outside its current handler (a late
\* callback, another component of the provider).
Send ==
    \E e \in ProviderEvent : \E a \in Payloads(e) :
        /\ Emit(e, a)
        /\ NoResponse

----------------------------------------------------------------------------
\* The state-entry handlers.  Each runs for the record of the state it is
\* registered for, consults its collaborators (whose answers are the inputs
\* chosen here) and fires one event.

Handler(s) == pending /\ deal.State = s

\* The events validate_deal_proposal can fire: its outcome on every
\* combination of proposal, chain and environment parameters.
ValidateOutcomes == {ValidateDealProposalOutcome(p) : p \in ValidateInputs}

ValidateDealProposal ==
    /\ Handler(StorageDealValidating)
    /\ \E r \in ValidateOutcomes : Run(Validated(r, ext))

TransferData ==
    /\ Handler(StorageDealProposalAccepted)
    /\ \E p \in TransferDataParams : Run(TransferDataOutcome(deal, ext, p))

VerifyData ==
    /\ Handler(StorageDealVerifyData)
    /\ \E p \in VerifyDataParams : Run(VerifyDataOutcome(deal, ext, p))

EnsureProviderFunds ==
    /\ Handler(StorageDealEnsureProviderFunds)
    /\ \E p \in EnsureProviderFundsParams : Run(EnsureProviderFundsOutcome(deal, ext, p))

\* The handler's effect is taken when its wait for the message ends.
WaitForFunding ==
    /\ Handler(StorageDealProviderFunding)
    /\ \E p \in WaitForFundingParams : Run(WaitForFundingOutcome(deal, ext, p))

PublishDeal ==
    /\ Handler(StorageDealPublish)
    /\ \/ \E x \in ErrTexts :
            Emit(ProviderEventNodeErrored, ErrArgs(Errorf("publishing deal: ", x)))
       \/ \E c \in Cids : Emit(ProviderEventDealPublishInitiated, CidArgs(c))
    /\ NoResponse

WaitForPublish ==
    /\ Handler(StorageDealPublishing)
    /\ \E p \in WaitForPublishParams : Run(WaitForPublishOutcome(deal, ext, p))

HandoffDeal ==
    /\ Handler(StorageDealStaged)
    /\ \E p \in HandoffDealParams : Run(HandoffDealOutcome(deal, ext, p))

VerifyDealActivated ==
    /\ Handler(StorageDealSealing)
    /\ \E p \in VerifyDealActivatedParams : Run(VerifyDealActivatedOutcome(deal, ext, p))

RecordPieceInfo ==
    /\ Handler(StorageDealActive)
    /\ \E p \in RecordPieceInfoParams : Run(RecordPieceInfoOutcome(deal, ext, p))

FailDeal ==
    /\ Handler(StorageDealFailing)
    /\ \E p \in FailDealParams : Run(FailDealOutcome(deal, ext, p))

\* The data-transfer subsystem reports the outcome of the pull it was asked for.
DataTransfer ==
    /\ deal.State = StorageDealTransferring
    /\ \/ Emit(ProviderEventDataTransferCompleted, NoArgs)
       \/ \E x \in ErrTexts : Emit(ProviderEventDataTransferFailed, ErrArgs(x))
    /\ NoResponse

\* ImportDataForDeal: the data of a manual deal is handed to the provider.
ImportDataForDeal ==
    /\ deal.State = StorageDealWaitingForData
    /\ \E p \in Paths :
         Run(Outcome(ProviderEventVerifiedData, PathArgs(p, ""), Generated(ext, p, ""), FALSE))

Handlers ==
    \/ ValidateDealProposal
    \/ TransferData
    \/ VerifyData
    \/ EnsureProviderFunds
    \/ WaitForFunding
    \/ PublishDeal
    \/ WaitForPublish
    \/ HandoffDeal
    \/ VerifyDealActivated
    \/ RecordPieceInfo
    \/ FailDeal

Next ==
    \/ Open
    \/ Handlers
    \/ DataTransfer
    \/ ImportDataForDeal
    \/ Send

Spec == Init /\ [][Next]_vars

\* The engine alone: the handlers and the collaborators drive the record,
\* every handler that is dispatched eventually runs and every collaborator
\* eventually answers.
NextLive ==
    \/ Open
    \/ Handlers
    \/ DataTransfer
    \/ ImportDataForDeal

LiveSpec ==
    /\ Init
    /\ [][NextLive]_vars
    /\ WF_vars(Handlers)
    /\ WF_vars(DataTransfer)
    /\ WF_vars(ImportDataForDeal)

----------------------------------------------------------------------------
\* The event processor and the finality states on their own, over records in
\* every status code: a record is made up in some status (as the handlers'
\* tests make theirs), events are applied to it one after the other, and
\* the group is asked whether it is terminated.

TestMinerDeals ==
    {[MinerDeal([TransferType |-> TTGraphsync]) EXCEPT
         !.State = s, !.ConnectionClosed = c, !.DealID = i] :
        s \in StorageDealStatus, c \in BOOLEAN, i \in DealIDs}

InitTable ==
    /\ deal \in TestMinerDeals
    /\ pending = FALSE
    /\ last = NoEvent
    /\ probe = NoQuery
    /\ visited = {deal.State}
    /\ sentClosed = FALSE
    /\ stamped = << >>
    /\ trail = <<deal.State>>
    /\ down = FALSE
    /\ vin = defaultParams
    /\ ext = NoExt
    /\ hp = NoRow
    /\ shown = NoLookup
    /\ hub = NoHub

ApplyEvent ==
    /\ last.n < MaxApplied
    /\ \E e \in ProviderEvent : \E a \in Payloads(e) :
        /\ deal' = Apply(deal, e, a).deal
        /\ last' = [event |-> e, args |-> a, applied |-> Apply(deal, e, a).ok, n |-> last.n + 1]
        /\ UNCHANGED <<pending, probe, visited, sentClosed, stamped, trail, down, vin, ext, hp, shown, hub>>

QueryTerminated ==
    /\ last.n = 0
    /\ probe' = [status |-> deal.State, terminated |-> IsTerminated(deal), asked |-> TRUE]
    /\ UNCHANGED <<deal, pending, last, visited, sentClosed, stamped, trail, down, vin, ext, hp, shown, hub>>

NextTable == ApplyEvent \/ QueryTerminated

TableSpec == InitTable /\ [][NextTable]_vars

----------------------------------------------------------------------------
\* validate_deal_proposal on its own, as its test runs it: a record made up
\* in validating, the handler run once with the parameters of the row, and
\* the event it fired applied to the record.

InitValidate ==
    /\ deal = [MinerDeal([TransferType |-> TTGraphsync]) EXCEPT
                  !.State = StorageDealValidating,
                  !.AddFundsCid = <<1>>,
                  !.PublishCid = <<1>>]
    /\ pending = TRUE
    /\ last = NoEvent
    /\ probe = NoQuery
    /\ visited = {StorageDealValidating}
    /\ sentClosed = FALSE
    /\ stamped = << >>
    /\ trail = <<StorageDealValidating>>
    /\ down = FALSE
    /\ vin \in ValidateInputs
    /\ ext = NoExt
    /\ hp = NoRow
    /\ shown = NoLookup
    /\ hub = NoHub

runValidateDealProposal ==
    /\ Handler(StorageDealValidating)
    /\ RunRow(Validated(ValidateDealProposalOutcome(vin), ext))

NextValidate == runValidateDealProposal

ValidateSpec == InitValidate /\ [][NextValidate]_vars

----------------------------------------------------------------------------
\* The other handlers on their own, as their tests run them: a record made
\* up in the handler's state, the stores filled, the handler run once with
\* the parameters of the row, and the event it fired applied to the record.

HandlerStates ==
    { StorageDealProposalAccepted, StorageDealVerifyData,
      StorageDealEnsureProviderFunds, StorageDealProviderFunding,
      StorageDealPublishing, StorageDealStaged, StorageDealSealing,
      StorageDealActive, StorageDealFailing }

RowParams(s) ==
    CASE s = StorageDealProposalAccepted -> TransferDataParams
      [] s = StorageDealVerifyData -> VerifyDataParams
      [] s = StorageDealSealing -> VerifyDealActivatedParams
      [] s = StorageDealEnsureProviderFunds -> EnsureProviderFundsParams
      [] s = StorageDealProviderFunding -> WaitForFundingRows
      [] s = StorageDealPublishing -> WaitForPublishParams
      [] s = StorageDealStaged -> HandoffDealParams
      [] s = StorageDealActive -> RecordPieceInfoParams
      [] s = StorageDealFailing -> FailDealParams

\* The message a record in failing was given by the event that led there.
EntryMessages(s) ==
    IF s = StorageDealFailing
    THEN {<< >>, <<"deal rejected: ", "incorrect provider for deal">>}
    ELSE {<< >>}

\* The data reference is varied by the rows of transfer_data alone.
TransferTypes(s) ==
    IF s = StorageDealProposalAccepted THEN {TTGraphsync, TTManual} ELSE {TTGraphsync}

RowDeals ==
    {[MinerDeal([TransferType |-> t]) EXCEPT
         !.State = s, !.AddFundsCid = <<1>>, !.PublishCid = <<1>>,
         !.PiecePath = pp, !.MetadataPath = mp,
         !.ConnectionClosed = c, !.DealID = i, !.Message = m] :
        s \in HandlerStates, t \in {TTGraphsync, TTManual}, pp \in {"", defaultPath}, mp \in {"", defaultMetadataPath},
        c \in BOOLEAN, i \in DealIDs,
        m \in {<< >>, <<"deal rejected: ", "incorrect provider for deal">>}}

InitHandler ==
    /\ deal \in {d \in RowDeals : /\ d.Message \in EntryMessages(d.State)
                                   /\ d.Ref.TransferType \in TransferTypes(d.State)}
    /\ pending = TRUE
    /\ last = NoEvent
    /\ probe = NoQuery
    /\ visited = {deal.State}
    /\ sentClosed = FALSE
    /\ stamped = << >>
    /\ trail = <<deal.State>>
    /\ down = FALSE
    /\ vin = defaultParams
    /\ ext \in {[NoExt EXCEPT !.Files = f] : f \in SUBSET FileNames}
    /\ hp \in {[Deal |-> deal, Ext |-> ext, P |-> p, Fired |-> 0, Calls |-> {}] :
                   p \in RowParams(deal.State)}
    /\ shown = NoLookup
    /\ hub = NoHub

\* The handler has not run yet on the record of the row.
Fresh(s) == deal = hp.Deal /\ Handler(s)

runTransferData ==
    /\ Fresh(StorageDealProposalAccepted)
    /\ RunRow(TransferDataOutcome(deal, ext, hp.P))

runVerifyData ==
    /\ Fresh(StorageDealVerifyData)
    /\ RunRow(VerifyDataOutcome(deal, ext, hp.P))

runVerifyDealActivated ==
    /\ Fresh(StorageDealSealing)
    /\ RunRow(VerifyDealActivatedOutcome(deal, ext, hp.P))

runEnsureProviderFunds ==
    /\ Fresh(StorageDealEnsureProviderFunds)
    /\ RunRow(EnsureProviderFundsOutcome(deal, ext, hp.P))

runWaitForFunding ==
    /\ Fresh(StorageDealProviderFunding)
    /\ RunRow(WaitForFundingOutcome(deal, ext, hp.P))

runWaitForPublish ==
    /\ Fresh(StorageDealPublishing)
    /\ RunRow(WaitForPublishOutcome(deal, ext, hp.P))

runHandoffDeal ==
    /\ Fresh(StorageDealStaged)
    /\ RunRow(HandoffDealOutcome(deal, ext, hp.P))

runRecordPieceInfo ==
    /\ Fresh(StorageDealActive)
    /\ RunRow(RecordPieceInfoOutcome(deal, ext, hp.P))

runFailDeal ==
    /\ Fresh(StorageDealFailing)
    /\ RunRow(FailDealOutcome(deal, ext, hp.P))

NextHandler ==
    \/ runTransferData
    \/ runVerifyData
    \/ runEnsureProviderFunds
    \/ runWaitForFunding
    \/ runWaitForPublish
    \/ runHandoffDeal
    \/ runVerifyDealActivated
    \/ runRecordPieceInfo
    \/ runFailDeal

HandlerSpec == InitHandler /\ [][NextHandler]_vars

----------------------------------------------------------------------------
\* The tables of display names on their own: the name of an event of either
\* side is looked up, as when an event of a record is logged.

LookupProviderEvent ==
    /\ \E e \in ProviderEvent :
         shown' = [ table |-> "ProviderEvents", code |-> e,
                    found |-> Lookup(ProviderEvents, e).found,
                    name  |-> Lookup(ProviderEvents, e).name, asked |-> TRUE ]
    /\ UNCHANGED <<deal, pending, last, probe, visited, sentClosed, stamped, trail,
                   down, vin, ext, hp, hub>>

LookupClientEvent ==
    /\ \E e \in ClientEvent :
         shown' = [ table |-> "ClientEvents", code |-> e,
                    found |-> Lookup(ClientEvents, e).found,
                    name  |-> Lookup(ClientEvents, e).name, asked |-> TRUE ]
    /\ UNCHANGED <<deal, pending, last, probe, visited, sentClosed, stamped, trail,
                   down, vin, ext, hp, hub>>

NextName == LookupProviderEvent \/ LookupClientEvent

NameSpec == InitTable /\ [][NextName]_vars

----------------------------------------------------------------------------
\* The subscriber hub: a callback registered with SubscribeToEvents is
\* handed every event applied to the record, with the record as the event
\* left it, until it is unsubscribed.

Publish_Broadcast(h, e, d) ==
    [h EXCEPT !.applied = Append(@, [event |-> e, deal |-> d]),
              !.delivered = Append(@, [event |-> e, deal |-> d])]

Publish(h, e, d) ==
    [h EXCEPT !.applied = Append(@, [event |-> e, deal |-> d]),
              !.delivered = IF h.subscribed
                            THEN Append(@, [event |-> e, deal |-> d]) ELSE @]

\* An event is applied to the record and the subscriber is told.
Notify ==
    /\ Len(hub.applied) < MaxNotified
    /\ \E e \in ProviderEvent : \E a \in Payloads(e) :
         /\ Apply(deal, e, a).ok
         /\ Fire(e, a)
         /\ hub' = Publish(hub, e, Apply(deal, e, a).deal)
    /\ UNCHANGED <<last, probe, sentClosed, down, vin, ext, hp, shown>>

SubscribeToEvents ==
    /\ ~hub.subscribed /\ ~hub.unsubscribed
    /\ hub' = [hub EXCEPT !.subscribed = TRUE, !.from = Len(hub.applied)]
    /\ UNCHANGED <<deal, pending, last, probe, visited, sentClosed, stamped, trail,
                   down, vin, ext, hp, shown>>

Unsubscribe ==
    /\ hub.subscribed
    /\ hub' = [hub EXCEPT !.subscribed = FALSE, !.unsubscribed = TRUE]
    /\ UNCHANGED <<deal, pending, last, probe, visited, sentClosed, stamped, trail,
                   down, vin, ext, hp, shown>>

NextHub ==
    \/ Notify
    \/ SubscribeToEvents
    \/ Unsubscribe

HubSpec == Init /\ [][NextHub]_vars

----------------------------------------------------------------------------
\* The provider process stopping and starting again: a stop loses the
\* handler that was dispatched; on start the restart event is fired on the
\* persisted record.

Crash ==
    /\ ~down
    /\ down' = TRUE
    /\ pending' = FALSE
    /\ UNCHANGED <<deal, last, probe, visited, sentClosed, stamped, trail, vin, ext, hp, shown, hub>>

Restart ==
    /\ down
    /\ down' = FALSE
    /\ Fire(ProviderEventRestart, NoArgs)
    /\ UNCHANGED <<last, probe, sentClosed, vin, ext, hp, shown, hub>>

Running == ~down /\ NextLive

NextRestart ==
    \/ Running
    \/ Crash
    \/ Restart

RestartSpec == Init /\ [][NextRestart]_vars

----------------------------------------------------------------------------
\* Properties.

Terminal == {StorageDealCompleted, StorageDealError}

\* C1: once the record's state is completed or error, no event of any kind
\* changes the record.  (Refuted: node_errored applies from any state.)
C1_TerminalRecordFrozen ==
    [][deal.State \in Terminal => deal' = deal]_vars

\* C2: the record is reported terminated if and only if its state is
\* completed or error, for every status code.
C2_TerminatedIffFinal ==
    probe.asked => (probe.terminated <=> probe.status \in Terminal)

C2_Witness ==
    probe.asked /\ probe.terminated /\ probe.status = StorageDealCompleted

C4_ErrorHasMessage ==
    deal.State = StorageDealError => deal.Message # << >>

C4_Witness ==
    deal.State = StorageDealError /\ deal.Message = <<"deal rejected: ">>

\* C5 as stated: a record in completed has an empty message and a deal id
\* different from 0.  (Refuted: the chain can return deal id 0.)
C5_CompletedDealIDNonZero ==
    deal.State = StorageDealCompleted => deal.Message = << >> /\ deal.DealID # 0

\* C5 amended: a record in completed has an empty message and carries the
\* deal id that the published event delivered, which may be 0.
C5_CompletedCarriesPublishedID ==
    deal.State = StorageDealCompleted =>
        deal.Message = << >> /\ stamped = <<deal.DealID>>

C5_Witness ==
    deal.State = StorageDealCompleted /\ stamped = <<0>> /\ deal.ConnectionClosed

\* C6 as stated: the message is non-empty if and only if the record has been
\* in failing.  (Refuted: send_response_failed takes publishing to error.)
C6_MessageIffFailing ==
    deal.Message # << >> <=> StorageDealFailing \in visited

\* C6 amended: the message is non-empty if and only if the record has been
\* in failing or in error.
C6_MessageIffFailingOrError ==
    deal.Message # << >> <=>
        (StorageDealFailing \in visited \/ StorageDealError \in visited)

C6_Witness ==
    /\ deal.State = StorageDealError
    /\ StorageDealFailing \notin visited
    /\ deal.Message = <<"sending response to deal: ", "could not send">>

\* C7: the record never enters again a state it has left.  (Refuted:
\* node_errored takes a record in error back to failing.)
C7_NoStateReentered ==
    [][deal'.State # deal.State => deal'.State \notin visited]_vars

\* C8: AddFundsCid and PublishCid, once set, keep their value.
C8_MessageCidsKept ==
    [][ /\ deal.AddFundsCid # << >> => deal'.AddFundsCid = deal.AddFundsCid
        /\ deal.PublishCid # << >> => deal'.PublishCid = deal.PublishCid ]_vars

C8_Witness ==
    /\ deal.AddFundsCid # << >>
    /\ deal.PublishCid # << >>
    /\ deal.AddFundsCid # deal.PublishCid
    /\ deal.State = StorageDealFailing

\* C9: no handler sends a signed response for a record whose connection is
\* closed; fail_deal entered with the connection closed sends nothing.
C9_NoResponseOnceClosed == ~sentClosed

C9_Witness ==
    /\ deal.State = StorageDealError
    /\ deal.ConnectionClosed
    /\ StorageDealFailing \in visited
    /\ deal.Message = <<"handing off deal to node: ", "could not send">>

\* C10: every record created by open eventually reaches completed or error.
C10_EventuallyTerminal ==
    (deal.State # StorageDealUnknown) ~> (deal.State \in Terminal)

C10_Witness ==
    /\ deal.State = StorageDealCompleted
    /\ StorageDealWaitingForData \in visited
    /\ StorageDealProviderFunding \in visited

\* C11 as stated: every record in error was in failing immediately before;
\* no transition enters error from another state.  (Refuted:
\* send_response_failed takes a record from publishing to error.)
C11_ErrorOnlyFromFailing ==
    [][(deal'.State = StorageDealError /\ deal.State # StorageDealError) =>
          deal.State = StorageDealFailing]_vars

\* C11 amended: a record enters error only from failing or from publishing,
\* and from publishing only by send_response_failed, which sets the message
\* "sending response to deal: ..." (fail_deal has not run for it).
C11_ErrorFromFailingOrPublishing ==
    [][(deal'.State = StorageDealError /\ deal.State # StorageDealError) =>
          /\ deal.State \in {StorageDealFailing, StorageDealPublishing}
          /\ deal.State = StorageDealPublishing =>
                /\ Head(deal'.Message) = "sending response to deal: "
                /\ [deal' EXCEPT !.Message = deal.Message, !.State = deal.State] = deal
      ]_vars

C11_Witness ==
    /\ deal.State = StorageDealError
    /\ Len(trail) >= 2
    /\ trail[Len(trail)] = StorageDealError
    /\ trail[Len(trail) - 1] = StorageDealPublishing
    /\ Text(deal.Message) = "sending response to deal: could not send"

\* C12: node_errored fired on a record in any state is accepted, moves the
\* record to failing and sets the message to "error calling node: " followed
\* by the error text, leaving the other fields alone.
C12_NodeErroredFromAnyState ==
    [][(last'.n = last.n + 1 /\ last'.event = ProviderEventNodeErrored) =>
          /\ last'.applied
          /\ deal' = [deal EXCEPT
                         !.State = StorageDealFailing,
                         !.Message = <<"error calling node: ">> \o last'.args.err]
      ]_vars

C12_Witness ==
    /\ last.n = 1
    /\ last.event = ProviderEventNodeErrored
    /\ last.applied
    /\ visited = {StorageDealCompleted}
    /\ deal.State = StorageDealFailing
    /\ Text(deal.Message) = "error calling node: could not send"

\* C13: the restart event fired on a persisted record in a non-terminal
\* state is accepted, leaves every field of the record as it was, and
\* dispatches the handler of the record's state again.  (Refuted: the table
\* has no row for restart.)
C13_RestartRedispatches ==
    [][(down /\ ~down' /\ deal.State \notin Terminal) =>
          /\ HasRow(deal.State, ProviderEventRestart)
          /\ deal' = deal
          /\ deal.State \in ProviderStateEntryFuncs => pending'
      ]_vars

\* C14: a run that was stopped and resumed with restart goes on as the
\* uninterrupted run does: whenever the process is up, the handler of the
\* record's state is dispatched exactly as it is in a run that never
\* stopped.  (Refuted: after restart no handler is dispatched.)
C14_ResumedRunAsUninterrupted ==
    ~down => (pending <=> deal.State \in ProviderStateEntryFuncs)

\* C15 as stated: every non-terminal state a record enters has a registered
\* handler, dispatched on entry.  (Refuted: transferring and
\* waiting_for_data have none.)
C15_EveryStateHasHandler ==
    (deal.State \notin Terminal /\ deal.State # StorageDealUnknown) =>
        (deal.State \in ProviderStateEntryFuncs /\ pending)

\* C15 amended: every non-terminal state a record enters, other than
\* transferring and waiting_for_data, has a registered handler that is
\* dispatched on entry; those two have none and are left only by an event
\* from outside the handlers.
C15_HandlerUnlessAwaitingData ==
    /\ (deal.State \notin Terminal \cup
            {StorageDealUnknown, StorageDealTransferring, StorageDealWaitingForData}) =>
          (deal.State \in ProviderStateEntryFuncs /\ pending)
    /\ deal.State \in {StorageDealTransferring, StorageDealWaitingForData} =>
          (deal.State \notin ProviderStateEntryFuncs /\ ~pending)

C15_Witness ==
    /\ deal.State = StorageDealStaged
    /\ pending
    /\ StorageDealTransferring \in visited

\* The orders of states that lead a record to completed.
CompletedTrails ==
    { <<StorageDealUnknown, StorageDealValidating, StorageDealProposalAccepted>>
        \o data \o <<StorageDealEnsureProviderFunds>> \o funding
        \o <<StorageDealPublish, StorageDealPublishing, StorageDealStaged,
             StorageDealSealing, StorageDealActive, StorageDealCompleted>> :
        data \in { <<StorageDealTransferring, StorageDealVerifyData>>,
                   <<StorageDealWaitingForData>> },
        funding \in { << >>, <<StorageDealProviderFunding>> } }

\* C16: a record in completed entered, in this order and each once: unknown,
\* validating, proposal_accepted, then transferring and verify_data or else
\* waiting_for_data, then ensure_provider_funds, optionally
\* provider_funding, publish, publishing, staged, sealing, active,
\* completed; it was never in failing or error.
C16_CompletedVisitedInOrder ==
    deal.State = StorageDealCompleted =>
        /\ trail \in CompletedTrails
        /\ visited = {trail[i] : i \in 1..Len(trail)}
        /\ StorageDealFailing \notin visited
        /\ StorageDealError \notin visited

C16_Witness ==
    /\ deal.State = StorageDealCompleted
    /\ trail = << StorageDealUnknown, StorageDealValidating, StorageDealProposalAccepted,
                  StorageDealWaitingForData, StorageDealEnsureProviderFunds,
                  StorageDealPublish, StorageDealPublishing, StorageDealStaged,
                  StorageDealSealing, StorageDealActive, StorageDealCompleted >>

----------------------------------------------------------------------------
\* validate_deal_proposal: the record after the handler has run, against the
\* parameters it was run with.

Ran == deal.State # StorageDealValidating

\* The ask price 10000000 per GiB-epoch scaled to each piece size, rounded
\* down (worked out by hand: 1.19, 2.37, 2.38, 9765.62, 9765.63).
AskMinPrice(size) ==
    CASE size = 128 -> 1
      [] size = 255 -> 2
      [] size = 256 -> 2
      [] size = 1048576 -> 9765
      [] size = 1048577 -> 9765

SignatureAndChainOk(p) ==
    /\ ~p.VerifySignatureFails
    /\ p.Address = defaultProviderAddress
    /\ p.MostRecentStateIDError = NoError

TooLate(p) == p.Height > p.StartEpoch - p.DealAcceptanceBuffer
PriceLow(p) == p.StoragePricePerEpoch < AskMinPrice(p.PieceSize)
SizeOutOfRange(p) == p.PieceSize < 256 \/ p.PieceSize > 1048576
Lockup(p) == p.ClientCollateral + p.StoragePricePerEpoch * (p.EndEpoch - p.StartEpoch)
BalanceShort(p) == p.ClientMarketBalance < Lockup(p)

RejectedWith(reason) ==
    /\ deal.State = StorageDealFailing
    /\ Len(deal.Message) >= 2
    /\ deal.Message[1] = "deal rejected: "
    /\ deal.Message[2] = reason

\* C17: a proposal is rejected for price exactly when its price per epoch is
\* less than the ask price times the piece size divided by 2^30, rounded
\* down (decided once the signature, provider and timing checks have
\* passed; a proposal priced lower is never accepted, one priced at the
\* minimum or above is never rejected for price); with ask 10000000 and a
\* 1 MiB piece, 5000 ends in failing with "deal rejected: storage price per
\* epoch less than asking price: 5000 < 9765" and 10000 is accepted.
C17_PriceBelowScaledAsk ==
    Ran =>
        /\ RejectedWith("storage price per epoch less than asking price: ") => PriceLow(vin)
        /\ PriceLow(vin) => deal.State = StorageDealFailing
        /\ (SignatureAndChainOk(vin) /\ ~TooLate(vin)) =>
              (PriceLow(vin) <=>
                  /\ deal.State = StorageDealFailing
                  /\ deal.Message =
                        << "deal rejected: ",
                           "storage price per epoch less than asking price: ",
                           ToString(vin.StoragePricePerEpoch), " < ",
                           ToString(AskMinPrice(vin.PieceSize)) >>)
        /\ vin = [defaultParams EXCEPT !.StoragePricePerEpoch = 5000] =>
              /\ deal.State = StorageDealFailing
              /\ Text(deal.Message) =
                    "deal rejected: storage price per epoch less than asking price: 5000 < 9765"
        /\ vin = [defaultParams EXCEPT !.StoragePricePerEpoch = 10000] =>
              deal.State = StorageDealProposalAccepted

C17_Witness ==
    /\ vin = [defaultParams EXCEPT !.StoragePricePerEpoch = 9764]
    /\ deal.State = StorageDealFailing
    /\ Text(deal.Message) =
          "deal rejected: storage price per epoch less than asking price: 9764 < 9765"

\* C18: a proposal is rejected for its piece size exactly when the size is
\* below the ask's minimum (256) or above its maximum (1048576) (decided
\* once the earlier checks have passed; a size out of range is never
\* accepted, a size in range never rejected for size); a size equal to the
\* minimum or to the maximum is accepted, and 128 against 256 ends in
\* failing with "deal rejected: piece size less than minimum required
\* size: 128 < 256".
C18_PieceSizeWithinAsk ==
    Ran =>
        LET forSize ==
                \/ RejectedWith("piece size less than minimum required size: ")
                \/ RejectedWith("piece size more than maximum allowed size: ")
        IN  /\ forSize => SizeOutOfRange(vin)
            /\ SizeOutOfRange(vin) => deal.State = StorageDealFailing
            /\ (SignatureAndChainOk(vin) /\ ~TooLate(vin) /\ ~PriceLow(vin)) =>
                  (SizeOutOfRange(vin) <=> forSize)
            /\ vin.PieceSize < 256 /\ forSize =>
                  deal.Message = << "deal rejected: ",
                                     "piece size less than minimum required size: ",
                                     ToString(vin.PieceSize), " < ", "256" >>
            /\ vin.PieceSize > 1048576 /\ forSize =>
                  deal.Message = << "deal rejected: ",
                                     "piece size more than maximum allowed size: ",
                                     ToString(vin.PieceSize), " > ", "1048576" >>
            /\ \A size \in {256, 1048576} :
                  vin = [defaultParams EXCEPT !.PieceSize = size] =>
                      deal.State = StorageDealProposalAccepted
            /\ vin = [defaultParams EXCEPT !.PieceSize = 128] =>
                  /\ deal.State = StorageDealFailing
                  /\ Text(deal.Message) =
                        "deal rejected: piece size less than minimum required size: 128 < 256"

C18_Witness ==
    /\ vin = [defaultParams EXCEPT !.PieceSize = 128]
    /\ deal.State = StorageDealFailing
    /\ Text(deal.Message) =
          "deal rejected: piece size less than minimum required size: 128 < 256"

\* C19: a proposal is rejected for timing exactly when the current chain
\* epoch is greater than the start epoch minus the acceptance buffer
\* (decided once the signature and provider checks have passed and the
\* chain head was read; a proposal that is too late is never accepted);
\* with buffer 10 and start epoch 200, epoch 191 ends in failing with "deal
\* rejected: deal start epoch is too soon or deal already expired" and
\* epoch 190 in proposal_accepted.
C19_StartEpochBeyondBuffer ==
    Ran =>
        LET forTiming ==
                /\ deal.State = StorageDealFailing
                /\ Text(deal.Message) =
                      "deal rejected: deal start epoch is too soon or deal already expired"
        IN  /\ forTiming => TooLate(vin)
            /\ TooLate(vin) => deal.State = StorageDealFailing
            /\ SignatureAndChainOk(vin) => (TooLate(vin) <=> forTiming)
            /\ vin = [defaultParams EXCEPT !.DealAcceptanceBuffer = 10, !.Height = 191] =>
                  forTiming
            /\ vin = [defaultParams EXCEPT !.DealAcceptanceBuffer = 10, !.Height = 190] =>
                  deal.State = StorageDealProposalAccepted

C19_Witness ==
    /\ vin = [defaultParams EXCEPT !.DealAcceptanceBuffer = 10, !.Height = 190]
    /\ deal.State = StorageDealProposalAccepted

\* C20: a proposal is rejected with "deal rejected:
\* clientMarketBalance.Available too small" exactly when the client's
\* available market balance is less than the client collateral plus the
\* price per epoch times (end epoch - start epoch) (decided once the
\* earlier checks have passed and the balance was read; a client short of
\* the lockup is never accepted); a balance equal to the lockup is accepted.
C20_BalanceBelowLockup ==
    Ran =>
        LET forBalance ==
                /\ deal.State = StorageDealFailing
                /\ Text(deal.Message) = "deal rejected: clientMarketBalance.Available too small"
            reached ==
                /\ SignatureAndChainOk(vin)
                /\ ~TooLate(vin)
                /\ ~PriceLow(vin)
                /\ ~SizeOutOfRange(vin)
                /\ vin.ClientMarketBalanceError = NoError
        IN  /\ forBalance => BalanceShort(vin)
            /\ BalanceShort(vin) => deal.State = StorageDealFailing
            /\ reached => (BalanceShort(vin) <=> forBalance)
            /\ (reached /\ vin.ClientMarketBalance = Lockup(vin)) =>
                  deal.State = StorageDealProposalAccepted
            /\ vin = [defaultParams EXCEPT !.ClientMarketBalance = 150 * 10000] => forBalance

C20_Witness ==
    /\ vin = [defaultParams EXCEPT !.ClientCollateral = 1]
    /\ deal.State = StorageDealFailing
    /\ Text(deal.Message) = "deal rejected: clientMarketBalance.Available too small"

----------------------------------------------------------------------------
\* The handlers run on their own.

\* The handler registered for s has run on the record of the row.
HandlerRan(s) == hp.Deal.State = s /\ deal # hp.Deal

\* The files the record of the row names.
NamedFiles == {hp.Deal.PiecePath, hp.Deal.MetadataPath} \ {""}

\* C21: wait_for_publish on a record in publishing: with an ok exit code, a
\* returned id list and the signed response sent, the record is staged with
\* the first returned id as its deal id and its connection closed; with a
\* non-ok exit code the record is failing with the message
\* "PublishStorageDeal error: PublishStorageDeals exit code: <code>", its
\* deal id and connection flag as they were.
C21_PublishedOrPublishError ==
    HandlerRan(StorageDealPublishing) =>
        /\ (hp.P.WaitForMessageExitCode = ExitCodeOk /\ hp.P.SendSignedResponseError = NoError) =>
              deal = [hp.Deal EXCEPT !.State = StorageDealStaged,
                                     !.DealID = Head(hp.P.WaitForMessageRetBytes),
                                     !.ConnectionClosed = TRUE]
        /\ hp.P.WaitForMessageExitCode # ExitCodeOk =>
              /\ deal = [hp.Deal EXCEPT !.State = StorageDealFailing, !.Message = deal.Message]
              /\ Text(deal.Message) =
                    "PublishStorageDeal error: PublishStorageDeals exit code: "
                        \o hp.P.WaitForMessageExitCode

C21_Witness ==
    /\ HandlerRan(StorageDealPublishing)
    /\ hp.P.WaitForMessageExitCode = ExitCodeOk
    /\ hp.P.WaitForMessageRetBytes = <<1, 0>>
    /\ hp.Deal.DealID = 0
    /\ ~hp.Deal.ConnectionClosed
    /\ deal.State = StorageDealStaged
    /\ deal.DealID = 1
    /\ deal.ConnectionClosed

\* C22: handoff_deal on a record in staged fires one event: when the piece
\* file cannot be opened the record is failing with "accessing file store:
\* reading piece at path <path>: <err>" and the node's on_deal_complete was
\* not called; when on_deal_complete fails the record is failing with
\* "handing off deal to node: <err>"; otherwise the record is sealing.
C22_HandoffOutcome ==
    HandlerRan(StorageDealStaged) =>
        /\ trail = <<StorageDealStaged, deal.State>>
        /\ IF hp.Deal.PiecePath \notin hp.Ext.Files
           THEN /\ deal = [hp.Deal EXCEPT !.State = StorageDealFailing,
                                          !.Message = deal.Message]
                /\ Text(deal.Message) =
                      "accessing file store: reading piece at path "
                          \o hp.Deal.PiecePath \o ": " \o Text(TestErrNotFound)
                /\ ~ext.OnDealCompleteCalled
           ELSE IF hp.P.OnDealCompleteError # NoError
           THEN /\ deal = [hp.Deal EXCEPT !.State = StorageDealFailing,
                                          !.Message = deal.Message]
                /\ Text(deal.Message) =
                      "handing off deal to node: " \o Text(hp.P.OnDealCompleteError)
           ELSE deal = [hp.Deal EXCEPT !.State = StorageDealSealing]

C22_Witness ==
    /\ HandlerRan(StorageDealStaged)
    /\ hp.Deal.PiecePath = defaultPath
    /\ defaultPath \in hp.Ext.Files
    /\ hp.P.OnDealCompleteError = <<"failed building sector">>
    /\ deal.State = StorageDealFailing
    /\ Text(deal.Message) = "handing off deal to node: failed building sector"
    /\ ext.OnDealCompleteCalled

\* C23: record_piece_info on a record in active whose piece file and
\* metadata file exist, the piece-store calls succeeding: the record is
\* completed, both files are gone from the file store and the piece store
\* holds the association of the deal with the piece.
C23_PieceInfoRecorded ==
    ( /\ HandlerRan(StorageDealActive)
      /\ hp.Deal.PiecePath \in hp.Ext.Files
      /\ hp.Deal.MetadataPath \in hp.Ext.Files
      /\ hp.P.LocatePieceForDealWithinSectorError = NoError
      /\ hp.P.AddPieceBlockLocationsError = NoError
      /\ hp.P.AddDealForPieceError = NoError ) =>
        /\ deal = [hp.Deal EXCEPT !.State = StorageDealCompleted]
        /\ hp.Deal.PiecePath \notin ext.Files
        /\ hp.Deal.MetadataPath \notin ext.Files
        /\ hp.Deal.DealID \in ext.DealsForPiece

C23_Witness ==
    /\ HandlerRan(StorageDealActive)
    /\ hp.Deal.PiecePath = defaultPath
    /\ hp.Deal.MetadataPath = defaultMetadataPath
    /\ hp.Ext.Files = {defaultPath, defaultMetadataPath}
    /\ hp.Deal.DealID = 1
    /\ deal.State = StorageDealCompleted
    /\ ext.Files = {}
    /\ ext.DealsForPiece = {1}
    /\ ext.BlockLocations

\* C27: wait_for_publish on a record in publishing, the exit code ok but the
\* signed response not sent: the record goes from publishing directly to
\* error with "sending response to deal: <err>"; published is never
\* applied, so no deal id is stamped and the connection flag stays as it was.
C27_SendFailureSkipsPublished ==
    ( /\ HandlerRan(StorageDealPublishing)
      /\ hp.P.WaitForMessageExitCode = ExitCodeOk
      /\ hp.P.SendSignedResponseError # NoError ) =>
        /\ deal = [hp.Deal EXCEPT !.State = StorageDealError, !.Message = deal.Message]
        /\ Text(deal.Message) =
              "sending response to deal: " \o Text(hp.P.SendSignedResponseError)
        /\ trail = <<StorageDealPublishing, StorageDealError>>
        /\ stamped = << >>

C27_Witness ==
    /\ HandlerRan(StorageDealPublishing)
    /\ hp.P.WaitForMessageExitCode = ExitCodeOk
    /\ hp.P.WaitForMessageRetBytes = <<1>>
    /\ hp.P.SendSignedResponseError = <<"could not send">>
    /\ hp.Deal.DealID = 0
    /\ ~hp.Deal.ConnectionClosed
    /\ deal.State = StorageDealError
    /\ Text(deal.Message) = "sending response to deal: could not send"
    /\ deal.DealID = 0
    /\ ~deal.ConnectionClosed

\* C28: fail_deal always takes a record from failing to error; the message
\* is the one the record entered failing with when the connection is open
\* and the response is sent, or the connection is closed; it is replaced by
\* "sending response to deal: <err>" when the connection is open and the
\* send fails.
C28_FailDealOutcome ==
    HandlerRan(StorageDealFailing) =>
        IF ~hp.Deal.ConnectionClosed /\ hp.P.SendSignedResponseError # NoError
        THEN /\ deal = [hp.Deal EXCEPT !.State = StorageDealError, !.Message = deal.Message]
             /\ Text(deal.Message) =
                   "sending response to deal: " \o Text(hp.P.SendSignedResponseError)
        ELSE deal = [hp.Deal EXCEPT !.State = StorageDealError]

C28_Witness ==
    /\ HandlerRan(StorageDealFailing)
    /\ hp.Deal.ConnectionClosed
    /\ hp.P.SendSignedResponseError = <<"could not send">>
    /\ hp.Deal.Message # << >>
    /\ deal.State = StorageDealError
    /\ deal.Message = hp.Deal.Message

C30_EnsureProviderFundsOutcome ==
    HandlerRan(StorageDealEnsureProviderFunds) =>
        LET returned == IF hp.P.ProviderCollateral > 0 THEN hp.P.AddFundsCid ELSE 0
        IN  IF hp.P.MinerWorkerError # NoError
            THEN /\ deal = [hp.Deal EXCEPT !.State = StorageDealFailing,
                                           !.Message = deal.Message]
                 /\ Text(deal.Message) =
                       "error calling node: looking up miner worker: "
                           \o Text(hp.P.MinerWorkerError)
            ELSE IF hp.P.EnsureFundsError # NoError
            THEN /\ deal = [hp.Deal EXCEPT !.State = StorageDealFailing,
                                           !.Message = deal.Message]
                 /\ Text(deal.Message) =
                       "error calling node: ensuring funds: " \o Text(hp.P.EnsureFundsError)
            ELSE IF returned # 0
            THEN deal = [hp.Deal EXCEPT !.State = StorageDealProviderFunding,
                                        !.AddFundsCid = <<returned>>]
            ELSE deal = [hp.Deal EXCEPT !.State = StorageDealPublish]

C30_Witness ==
    /\ HandlerRan(StorageDealEnsureProviderFunds)
    /\ hp.P.ProviderCollateral = 1
    /\ hp.P.AddFundsCid = 2
    /\ hp.Deal.AddFundsCid = <<1>>
    /\ deal.State = StorageDealProviderFunding
    /\ deal.AddFundsCid = <<2>>

----------------------------------------------------------------------------
\* The subscriber hub and the tables of names.

IsPrefix(s, t) == Len(s) <= Len(t) /\ \A i \in 1..Len(s) : s[i] = t[i]

C26_EventNameTables ==
    shown.asked =>
        /\ shown.table = "ProviderEvents" => shown.found /\ shown.name # ""
        /\ (shown.table = "ProviderEvents" /\ shown.code = ProviderEventRestart) =>
              shown.name = "ProviderEventRestart"
        /\ shown.table = "ClientEvents" =>
              /\ shown.found <=> shown.code # ClientEventRestart
              /\ shown.found => shown.name # ""

C26_Witness ==
    /\ shown.asked
    /\ shown.table = "ClientEvents"
    /\ shown.code = ClientEventRestart
    /\ ~shown.found

----------------------------------------------------------------------------
\* The handlers that wait for, or ask for, something outside the provider.

\* The handler of state s has returned on the record of the row, whether or
\* not it fired an event.
HandlerReturned(s) == hp.Deal.State = s /\ (deal # hp.Deal \/ ~pending)

\* C31: wait_for_funding on a record in provider_funding: the record is in
\* publish only when the wait for the funds-addition message has completed
\* with exit code ok; with a non-ok exit code it is failing with the message
\* "error calling node: AddFunds exit code: <code>"; while the wait has not
\* completed the record stays as it was, in provider_funding.
C31_FundingAwaitsMessage ==
    hp.Deal.State = StorageDealProviderFunding =>
        /\ deal.State = StorageDealPublish =>
              ~hp.P.WaitForMessageBlocks /\ hp.P.WaitForMessageExitCode = ExitCodeOk
        /\ HandlerReturned(StorageDealProviderFunding) =>
              IF hp.P.WaitForMessageBlocks
              THEN deal = hp.Deal
              ELSE IF hp.P.WaitForMessageExitCode = ExitCodeOk
              THEN deal = [hp.Deal EXCEPT !.State = StorageDealPublish]
              ELSE /\ deal.State = StorageDealFailing
                   /\ Text(deal.Message) =
                         "error calling node: AddFunds exit code: "
                             \o hp.P.WaitForMessageExitCode

C31_Witness ==
    /\ HandlerReturned(StorageDealProviderFunding)
    /\ hp.P.WaitForMessageBlocks
    /\ hp.P.WaitForMessageExitCode = ExitCodeOk
    /\ deal.State = StorageDealProviderFunding

\* C32: verify_data on a record in verify_data: when the computed piece CID
\* equals the proposal's the record is in ensure_provider_funds with its
\* piece path and metadata path set to the two paths produced; when it
\* differs the record is failing with the message "deal rejected: proposal
\* CommP doesn't match calculated CommP" and its paths are as they were;
\* when the computation fails the record is failing with the message
\* "generating piece committment: <err>".
C32_VerifyDataOutcome ==
    HandlerRan(StorageDealVerifyData) =>
        LET computed == IF hp.P.PieceCid = 0 THEN defaultPieceCid ELSE hp.P.PieceCid
            produced == IF hp.P.MetadataPath = "" THEN defaultMetadataPath
                                                  ELSE hp.P.MetadataPath
        IN  IF hp.P.GenerateCommPError # NoError
            THEN /\ deal.State = StorageDealFailing
                 /\ deal.Message = <<"generating piece committment: ">> \o hp.P.GenerateCommPError
                 /\ deal.PiecePath = hp.Deal.PiecePath
                 /\ deal.MetadataPath = hp.Deal.MetadataPath
            ELSE IF computed = defaultPieceCid
            THEN deal = [hp.Deal EXCEPT !.State = StorageDealEnsureProviderFunds,
                                        !.PiecePath = defaultPath,
                                        !.MetadataPath = produced]
            ELSE /\ deal.State = StorageDealFailing
                 /\ Text(deal.Message) =
                       "deal rejected: proposal CommP doesn't match calculated CommP"
                 /\ deal.PiecePath = hp.Deal.PiecePath
                 /\ deal.MetadataPath = hp.Deal.MetadataPath

C32_Witness ==
    /\ HandlerRan(StorageDealVerifyData)
    /\ hp.P.GenerateCommPError = NoError
    /\ hp.P.PieceCid = 2
    /\ hp.Deal.PiecePath = ""
    /\ deal.State = StorageDealFailing
    /\ deal.PiecePath = ""

\* C33: transfer_data on a record in proposal_accepted fires exactly one
\* event: for a manual data reference the record is in waiting_for_data and
\* no data transfer was started; otherwise, when the pull channel was opened
\* the record is in transferring, and when opening it failed the record is
\* failing with the message "error transferring data: failed to open pull
\* data channel: <err>".
C33_TransferDataOutcome ==
    HandlerReturned(StorageDealProposalAccepted) =>
        /\ hp.Fired = 1
        /\ IF hp.Deal.Ref.TransferType = TTManual
           THEN /\ deal = [hp.Deal EXCEPT !.State = StorageDealWaitingForData]
                /\ "StartDataTransfer" \notin hp.Calls
           ELSE IF hp.P.DataTransferError = NoError
           THEN /\ deal = [hp.Deal EXCEPT !.State = StorageDealTransferring]
                /\ "StartDataTransfer" \in hp.Calls
           ELSE /\ deal.State = StorageDealFailing
                /\ deal.Message =
                      <<"error transferring data: ", "failed to open pull data channel: ">>
                          \o hp.P.DataTransferError

C33_Witness ==
    /\ HandlerReturned(StorageDealProposalAccepted)
    /\ hp.Deal.Ref.TransferType = TTManual
    /\ hp.P.DataTransferError # NoError
    /\ deal.State = StorageDealWaitingForData
    /\ "StartDataTransfer" \notin hp.Calls

\* C34: verify_deal_activated on a record in sealing fires exactly one event
\* per run, never both activated and deal_activation_failed: when the
\* subscription returns an error, or the callback is called with one, the
\* record is failing with the message "error activating deal: <err>"; when
\* the callback is called without error the record is active.
C34_OneActivationEvent ==
    HandlerReturned(StorageDealSealing) =>
        /\ hp.Fired = 1
        /\ IF hp.P.DealCommittedSyncError # NoError
           THEN /\ deal.State = StorageDealFailing
                /\ deal.Message = <<"error activating deal: ">> \o hp.P.DealCommittedSyncError
           ELSE IF hp.P.DealCommittedAsyncError # NoError
           THEN /\ deal.State = StorageDealFailing
                /\ deal.Message = <<"error activating deal: ">> \o hp.P.DealCommittedAsyncError
           ELSE deal = [hp.Deal EXCEPT !.State = StorageDealActive]

C34_Witness ==
    /\ HandlerReturned(StorageDealSealing)
    /\ hp.P.DealCommittedSyncError # NoError
    /\ hp.P.DealCommittedAsyncError = NoError
    /\ hp.Fired = 1
    /\ deal.State = StorageDealFailing

\* The steps of record_piece_info that fail on the row, as the row sets
\* them up: the piece cannot be located, the metadata file the record names
\* is not in the file store, the piece store refuses the block locations,
\* the piece store refuses the deal.
LocateFails == hp.P.LocatePieceForDealWithinSectorError # NoError
MetadataFails == hp.Deal.MetadataPath # "" /\ hp.Deal.MetadataPath \notin hp.Ext.Files
BlockLocationsFail == hp.P.AddPieceBlockLocationsError # NoError
DealForPieceFails == hp.P.AddDealForPieceError # NoError

\* C35: record_piece_info on a record in active: when one of its steps
\* fails (locating the piece, reading the metadata, adding the block
\* locations, adding the deal for the piece) the record is failing with the
\* message of the first step that failed, it is not completed, and no file
\* was deleted from the file store in that run.
C35_FailedStepKeepsFiles ==
    ( /\ HandlerRan(StorageDealActive)
      /\ LocateFails \/ MetadataFails \/ BlockLocationsFail \/ DealForPieceFails ) =>
        /\ deal.State = StorageDealFailing
        /\ ext.Files = hp.Ext.Files
        /\ deal.Message =
              IF LocateFails
              THEN <<"locating piece for deal ID ", ToString(hp.Deal.DealID), " in sector: ">>
                       \o hp.P.LocatePieceForDealWithinSectorError
              ELSE IF MetadataFails
              THEN <<"error reading piece metadata: ">> \o TestErrNotFound
              ELSE IF BlockLocationsFail
              THEN <<"accessing piece store: ", "adding piece block locations: ">>
                       \o hp.P.AddPieceBlockLocationsError
              ELSE <<"accessing piece store: ", "adding deal info for piece: ">>
                       \o hp.P.AddDealForPieceError

C35_Witness ==
    /\ HandlerRan(StorageDealActive)
    /\ ~LocateFails /\ ~MetadataFails /\ ~BlockLocationsFail /\ DealForPieceFails
    /\ hp.Deal.PiecePath = defaultPath
    /\ hp.Deal.MetadataPath = defaultMetadataPath
    /\ ext.Files = FileNames
    /\ deal.State = StorageDealFailing

\* C36: a run of record_piece_info that has located the piece and read the
\* metadata it was given registers block locations, also for a record whose
\* metadata path is empty; when the piece store refuses that registration
\* the record is failing with the message "accessing piece store: adding
\* piece block locations: <err>", whether or not a metadata path is set.
C36_BlockLocationsAlwaysRegistered ==
    (HandlerRan(StorageDealActive) /\ ~LocateFails /\ ~MetadataFails) =>
        IF BlockLocationsFail
        THEN /\ deal.State = StorageDealFailing
             /\ Text(deal.Message) =
                   "accessing piece store: adding piece block locations: "
                       \o Text(hp.P.AddPieceBlockLocationsError)
        ELSE ext.BlockLocations

C36_Witness ==
    /\ HandlerRan(StorageDealActive)
    /\ hp.Deal.MetadataPath = ""
    /\ ~LocateFails
    /\ BlockLocationsFail
    /\ deal.State = StorageDealFailing
    /\ Text(deal.Message) =
          "accessing piece store: adding piece block locations: could not add block locations"

----------------------------------------------------------------------------
\* validate_deal_proposal: what decides the event.

\* The first check that fails on the parameters p, the checks taken in the
\* order signature, provider address, chain head, timing, price, piece size,
\* balance: whether it is a chain lookup or a policy check, and how the
\* reason it gives starts.  No check fails: "none".
FirstFailure(p) ==
    IF p.VerifySignatureFails
    THEN [kind |-> "policy", reason |-> "verifying StorageDealProposal: "]
    ELSE IF p.Address # defaultProviderAddress
    THEN [kind |-> "policy", reason |-> "incorrect provider for deal"]
    ELSE IF p.MostRecentStateIDError # NoError
    THEN [kind |-> "lookup", reason |-> "getting most recent state id: "]
    ELSE IF TooLate(p)
    THEN [kind |-> "policy",
          reason |-> "deal start epoch is too soon or deal already expired"]
    ELSE IF PriceLow(p)
    THEN [kind |-> "policy", reason |-> "storage price per epoch less than asking price: "]
    ELSE IF p.PieceSize < 256
    THEN [kind |-> "policy", reason |-> "piece size less than minimum required size: "]
    ELSE IF p.PieceSize > 1048576
    THEN [kind |-> "policy", reason |-> "piece size more than maximum allowed size: "]
    ELSE IF p.ClientMarketBalanceError # NoError
    THEN [kind |-> "lookup", reason |-> "getting client market balance failed: "]
    ELSE IF BalanceShort(p)
    THEN [kind |-> "policy", reason |-> "clientMarketBalance.Available too small"]
    ELSE [kind |-> "none", reason |-> ""]

----------------------------------------------------------------------------
\* What the table allows after a response, after a failure, and for the
\* events it has no row for.

\* C38: once a handler has sent a final signed response (wait_for_publish
\* its publish confirmation, fail_deal its failure response) the record it
\* persists next has its connection closed, so that no later handler run
\* sends a second response.
C38_ClosedAfterFinalResponse ==
    /\ (HandlerRan(StorageDealPublishing) /\ deal.State = StorageDealStaged) =>
          deal.ConnectionClosed
    /\ ( /\ HandlerRan(StorageDealFailing)
         /\ ~hp.Deal.ConnectionClosed
         /\ hp.P.SendSignedResponseError = NoError ) =>
          deal.ConnectionClosed

\* C39: once a record has entered failing, the only states it is in
\* afterwards are failing and error: no event, from a handler or from
\* outside, takes a record in failing or in error anywhere else.
C39_FailingLeadsOnlyToError ==
    [][deal.State \in {StorageDealFailing, StorageDealError} =>
          deal'.State \in {StorageDealFailing, StorageDealError}]_vars

C39_Witness ==
    /\ deal.State = StorageDealFailing
    /\ StorageDealError \in visited
    /\ Text(deal.Message) = "error calling node: could not send"
    /\ pending

\* C40: insufficient_funds and manual_data_received have no row: fired on a
\* record in any state, either is rejected and the record is left as it
\* was; an event applied to a record in waiting_for_data is verified_data,
\* leading to ensure_provider_funds, or node_errored, leading to failing.
C40_NoRowForFundsOrManualData ==
    [][last'.n = last.n + 1 =>
          /\ last'.event \in {ProviderEventInsufficientFunds,
                               ProviderEventManualDataReceived} =>
                ~last'.applied /\ deal' = deal
          /\ (deal.State = StorageDealWaitingForData /\ last'.applied) =>
                \/ /\ last'.event = ProviderEventVerifiedData
                   /\ deal'.State = StorageDealEnsureProviderFunds
                \/ /\ last'.event = ProviderEventNodeErrored
                   /\ deal'.State = StorageDealFailing
          /\ (deal.State = StorageDealWaitingForData /\ ~last'.applied) => deal' = deal
      ]_vars

C40_Witness ==
    /\ last.n = 1
    /\ last.event = ProviderEventManualDataReceived
    /\ ~last.applied
    /\ visited = {StorageDealWaitingForData}
    /\ deal.State = StorageDealWaitingForData

====
